---- MODULE Spec2Model ----
(***************************************************************************)
(* Model of the Beatport adapter: the session held by BeatportApi, the     *)
(* authenticated request dispatcher BeatportApi._get with its 401 cycle    *)
(* and its 403/404 classification, and the pagination loops of             *)
(* ModuleInterface that assemble multi-page collections.                   *)
(*                                                                         *)
(* Text is modelled as a sequence of lexical atoms: a word atom stands for *)
(* a run of word characters, " " and "TAB" are whitespace characters and   *)
(* "." is punctuation.  Two adjacent word atoms form one longer word, so   *)
(* <<"x", "territory">> is the word "xterritory".                          *)
(***************************************************************************)
EXTENDS Integers, Sequences, FiniteSets, TLC

(***************************************************************************)
(* Bounds of the model.                                                    *)
(***************************************************************************)
MaxChunks == 2        \* chunks of text in one error body
MaxTok == 2           \* distinct token values the server hands out
MaxTime == 2          \* clock ticks
MaxLifetime == 2      \* largest expires_in the server answers
MaxFullPages == 2     \* full pages in the largest collection the server holds
MaxFaults == 2        \* pages of one aggregation that deviate from a well-behaved server
MaxPosts == 3         \* refresh posts in one run of two callers

\* r.text[:200], line 282
TruncateLen == 200

(***************************************************************************)
(* Text.                                                                   *)
(***************************************************************************)
WhitespaceAtoms == {" ", "TAB"}
PunctAtoms == {"."}
IsWordAtom(a) == a \notin (WhitespaceAtoms \cup PunctAtoms)

\* str.lower() on one atom
LowerAtom(a) ==
    CASE a = "This" -> "this"
      [] a = "Subscription" -> "subscription"
      [] a = "Territory" -> "territory"
      [] a = "Restricted" -> "restricted"
      [] a = "Blank" -> "blank"
      [] OTHER -> a

\* str.lower()
Lower(t) == [i \in DOMAIN t |-> LowerAtom(t[i])]

\* the words of a phrase, one space between them
Sp(w) == [i \in 1..(2 * Len(w) - 1) |-> IF i % 2 = 1 THEN w[(i + 1) \div 2] ELSE " "]

\* p occurs in t at position i
Occurs(p, t, i) ==
    /\ i >= 1
    /\ i + Len(p) - 1 <= Len(t)
    /\ \A j \in 1..Len(p) : t[i + j - 1] = p[j]

\* Python's  p in t  on strings
Contains(p, t) == \E i \in 1..Len(t) : Occurs(p, t, i)

\* \b before position i / after position j of t, both holding word characters
BoundaryBefore(t, i) == i = 1 \/ ~IsWordAtom(t[i - 1])
BoundaryAfter(t, j) == j = Len(t) \/ ~IsWordAtom(t[j + 1])

\* re.search(r'\b' + re.escape(phrase) + r'\b', t)
SearchPhrase(p, t) ==
    \E i \in 1..Len(t) :
        /\ Occurs(p, t, i)
        /\ BoundaryBefore(t, i)
        /\ BoundaryAfter(t, i + Len(p) - 1)

\* re.search(r'\b<w>\s+restricted\b', t)
SearchRestricted(w, t) ==
    \E i \in 1..Len(t) : \E k \in 1..Len(t) :
        /\ i + k + 1 <= Len(t)
        /\ t[i] = w
        /\ BoundaryBefore(t, i)
        /\ \A j \in (i + 1)..(i + k) : t[j] \in WhitespaceAtoms
        /\ t[i + k + 1] = "restricted"
        /\ BoundaryAfter(t, i + k + 1)

explicit_region_phrases ==
    << Sp(<<"not", "available", "in", "your", "territory">>),
       Sp(<<"not", "available", "in", "your", "region">>),
       Sp(<<"not", "available", "in", "this", "territory">>),
       Sp(<<"not", "available", "in", "this", "region">>),
       Sp(<<"territory", "not", "allowed">>),
       Sp(<<"region", "not", "allowed">>),
       Sp(<<"geographic", "restrictions", "apply">>),
       Sp(<<"territorial", "restrictions", "apply">>),
       Sp(<<"this", "content", "is", "not", "available", "in", "your", "territory">>),
       Sp(<<"this", "content", "is", "not", "available", "in", "your", "region">>) >>

(***************************************************************************)
(* JSON values, tagged by their Python type.  A dict keeps its items in    *)
(* document order, as Python's dict does.                                  *)
(***************************************************************************)
None == [t |-> "null"]
JStr(text) == [t |-> "str", v |-> text]
JNum(n) == [t |-> "num", v |-> n]
JList(elems) == [t |-> "list", elems |-> elems]
JDict(items) == [t |-> "dict", items |-> items]
EmptyStr == JStr(<< >>)

\* Python truthiness:  bool(v)
Truthy(v) ==
    CASE v.t = "null" -> FALSE
      [] v.t = "str" -> v.v # << >>
      [] v.t = "num" -> v.v # 0
      [] v.t = "bool" -> v.v
      [] v.t = "time" -> TRUE
      [] v.t = "list" -> v.elems # << >>
      [] v.t = "dict" -> v.items # << >>

\* key in d
Has(d, k) == \E i \in 1..Len(d.items) : d.items[i][1] = k

\* d[k] for a key that is present (a JSON object keeps the last of equal keys)
Item(d, k) ==
    LET i == CHOOSE i \in 1..Len(d.items) :
                 /\ d.items[i][1] = k
                 /\ \A j \in (i + 1)..Len(d.items) : d.items[j][1] # k
    IN d.items[i][2]

\* d.get(k, default)
Get(d, k, default) == IF Has(d, k) THEN Item(d, k) ELSE default

\* a member a JSON object does not have, and the items a member adds to an object
Absent == [t |-> "absent"]
Field(name, v) == IF v = Absent THEN << >> ELSE << <<name, v>> >>

\* the concatenation of a sequence of sequences
RECURSIVE Flatten(_)
Flatten(seqs) == IF seqs = << >> THEN << >> ELSE Head(seqs) \o Flatten(Tail(seqs))

\* str(v): a str is itself, any other value is its repr
RECURSIVE Str(_)
Str(v) ==
    CASE v.t = "str" -> v.v
      [] v.t = "num" -> <<"5">>
      [] v.t = "null" -> <<"None">>
      [] v.t = "list" ->
             <<"[">> \o Flatten([i \in 1..Len(v.elems) |-> Str(v.elems[i])]) \o <<"]">>
      [] v.t = "dict" ->
             <<"{">> \o Flatten([i \in 1..Len(v.items) |->
                                    <<v.items[i][1], ":">> \o Str(v.items[i][2])]) \o <<"}">>

\* iter(v) raises TypeError unless v is a list, a dict or a str
Iterable(v) == v.t \in {"list", "dict", "str"}

\* what  for msg in v  runs over: the elements of a list, the keys of a dict, the
\* characters of a str (no single character contains a word, so none is kept here)
Elements(v) ==
    CASE v.t = "list" -> v.elems
      [] v.t = "dict" -> [i \in 1..Len(v.items) |-> JStr(<<v.items[i][1]>>)]
      [] v.t = "str" -> << >>

(***************************************************************************)
(* HTTP responses.  A body is either text that json() cannot parse or a    *)
(* JSON document; r.text of a JSON document is the document as sent.       *)
(***************************************************************************)
RawText(text) == [shape |-> "text", text |-> text]
Json(value) == [shape |-> "json", value |-> value]
Response(status, body) == [status |-> status, body |-> body]
NoResponse == Response(0, RawText(<< >>))

\* r.json() raises ValueError (JSONDecodeError)
JsonFails(r) == r.body.shape = "text"

\* f"{v}" : a str formats as itself, any other value as its repr
Fmt(v) == IF v.t = "str" THEN RawText(v.v) ELSE Json(v)

\* s[:n]
Truncate(text, n) == SubSeq(text, 1, IF Len(text) < n THEN Len(text) ELSE n)

(***************************************************************************)
(* Outcomes of a call: a returned value or a raised exception.  The        *)
(* message of an exception is the literal part of its f-string (prefix)    *)
(* followed by the interpolated value (arg).                               *)
(***************************************************************************)
Raise(type, prefix, arg) == [type |-> type, prefix |-> prefix, arg |-> arg]
Return(body) == [type |-> "return", prefix |-> "", arg |-> body]
NoOutcome == [type |-> "none", prefix |-> "", arg |-> RawText(<< >>)]
NoArg == RawText(<< >>)

(***************************************************************************)
(* BeatportApi._get, lines 199-314: classification of the final response.  *)
(***************************************************************************)
\* " ".join(parts) for a sequence of texts
RECURSIVE JoinSpace(_)
JoinSpace(parts) ==
    IF parts = << >> THEN << >>
    ELSE IF Len(parts) = 1 THEN parts[1]
    ELSE parts[1] \o <<" ">> \o JoinSpace(Tail(parts))

\* filter(None, vals)
RECURSIVE FilterTruthy(_)
FilterTruthy(vals) ==
    IF vals = << >> THEN << >>
    ELSE IF Truthy(Head(vals)) THEN <<Head(vals)>> \o FilterTruthy(Tail(vals))
    ELSE FilterTruthy(Tail(vals))

\* lines 238-254
IsRegionLocked_BareWord(lower) ==
    /\ lower # << >>
    /\ \/ \E n \in 1..Len(explicit_region_phrases) :
              SearchPhrase(explicit_region_phrases[n], lower)
       \/ SearchRestricted("territory", lower)
       \/ SearchRestricted("region", lower)
       \/ Contains(<<"territory">>, lower)
       \/ Contains(<<"region">>, lower)
IsRegionLocked(lower) ==
    /\ lower # << >>
    /\ \/ \E n \in 1..Len(explicit_region_phrases) :
              SearchPhrase(explicit_region_phrases[n], lower)
       \/ SearchRestricted("territory", lower)
       \/ SearchRestricted("region", lower)

\* line 272 and line 301:  detail if detail else (error if error else (message if message else fallback))
FirstTruthy(detail, error_message, message, fallback) ==
    IF Truthy(detail) THEN detail
    ELSE IF Truthy(error_message) THEN error_message
    ELSE IF Truthy(message) THEN message
    ELSE fallback

Rules403_SubscriptionFirst(all_error_text, error_msg) ==
    LET all_error_text_lower == Lower(all_error_text) IN
    IF Contains(<<"subscription">>, all_error_text_lower)
    THEN Raise("BeatportError", "subscription required", NoArg)
    ELSE IF IsRegionLocked(all_error_text_lower)
    THEN Raise("BeatportError", "region locked", NoArg)
    ELSE IF /\ Contains(Sp(<<"not", "available">>), all_error_text_lower)
            /\ \/ Contains(<<"download">>, all_error_text_lower)
               \/ Contains(<<"stream">>, all_error_text_lower)
    THEN Raise("BeatportError", "content not available", NoArg)
    ELSE Raise("BeatportError", "API error: ", Fmt(error_msg))
Rules403_ReportsLowered(all_error_text, error_msg) ==
    LET all_error_text_lower == Lower(all_error_text) IN
    IF IsRegionLocked(all_error_text_lower)
    THEN Raise("BeatportError", "region locked", NoArg)
    ELSE IF Contains(<<"subscription">>, all_error_text_lower)
    THEN Raise("BeatportError", "subscription required", NoArg)
    ELSE IF /\ Contains(Sp(<<"not", "available">>), all_error_text_lower)
            /\ \/ Contains(<<"download">>, all_error_text_lower)
               \/ Contains(<<"stream">>, all_error_text_lower)
    THEN Raise("BeatportError", "content not available", NoArg)
    ELSE Raise("BeatportError", "API error: ", RawText(all_error_text_lower))
\* lines 256-274: the rules in their order, on the joined text
Rules403(all_error_text, error_msg) ==
    LET all_error_text_lower == Lower(all_error_text) IN
    IF IsRegionLocked(all_error_text_lower)
    THEN Raise("BeatportError", "region locked", NoArg)
    ELSE IF Contains(<<"subscription">>, all_error_text_lower)
    THEN Raise("BeatportError", "subscription required", NoArg)
    ELSE IF /\ Contains(Sp(<<"not", "available">>), all_error_text_lower)
            /\ \/ Contains(<<"download">>, all_error_text_lower)
               \/ Contains(<<"stream">>, all_error_text_lower)
    THEN Raise("BeatportError", "content not available", NoArg)
    ELSE Raise("BeatportError", "API error: ", Fmt(error_msg))

\* lines 200-282
Classify403(r) ==
    IF JsonFails(r)
    THEN Raise("BeatportError", "API error (HTTP 403): ",
               IF r.body.text # << >> THEN RawText(Truncate(r.body.text, TruncateLen))
               ELSE RawText(<<"Unable to parse error response">>))
    ELSE LET response_data == r.body.value IN
         IF response_data.t # "dict"
         THEN Raise("AttributeError", "", NoArg)
         ELSE LET detail == Get(response_data, "detail", EmptyStr)
                  error_message == Get(response_data, "error", EmptyStr)
                  message == Get(response_data, "message", EmptyStr)
                  parts == FilterTruthy(<<detail, error_message, message>>)
              IN IF \E i \in 1..Len(parts) : parts[i].t # "str"
                 THEN Raise("TypeError", "", NoArg)
                 ELSE Rules403(JoinSpace([i \in 1..Len(parts) |-> parts[i].v]),
                               FirstTruthy(detail, error_message, message,
                                           JStr(<<"access denied (HTTP 403)">>)))

\* lines 285-309
Classify404(r) ==
    IF JsonFails(r)
    THEN Raise("BeatportError", "not found (HTTP 404)", NoArg)
    ELSE LET response_data == r.body.value IN
         IF response_data.t # "dict"
         THEN Raise("AttributeError", "", NoArg)
         ELSE Raise("BeatportError", "not found: ",
                    Fmt(FirstTruthy(Get(response_data, "detail", EmptyStr),
                                    Get(response_data, "error", EmptyStr),
                                    Get(response_data, "message", EmptyStr),
                                    JStr(<<"not found">>))))

SuccessStatuses == {200, 201, 202}

Finish_AcceptsAny2xx(r) ==
    IF r.status = 403 THEN Classify403(r)
    ELSE IF r.status = 404 THEN Classify404(r)
    ELSE IF r.status \div 100 # 2 THEN Raise("ConnectionError", "", r.body)
    ELSE IF JsonFails(r) THEN Raise("JSONDecodeError", "", NoArg)
    ELSE Return(r.body)
\* lines 199-314: what _get does with the response it ends up with
Finish(r) ==
    IF r.status = 403 THEN Classify403(r)
    ELSE IF r.status = 404 THEN Classify404(r)
    ELSE IF r.status \notin SuccessStatuses THEN Raise("ConnectionError", "", r.body)
    ELSE IF JsonFails(r) THEN Raise("JSONDecodeError", "", NoArg)
    ELSE Return(r.body)

\* the error taxonomy read off the raised exception
Kind(o) ==
    CASE o.type = "return" -> "Success"
      [] o.type = "BeatportError" /\ o.prefix = "region locked" -> "RegionLocked"
      [] o.type = "BeatportError" /\ o.prefix = "subscription required" -> "SubscriptionRequired"
      [] o.type = "BeatportError" /\ o.prefix = "content not available" -> "ContentUnavailable"
      [] o.type = "BeatportError" /\ o.prefix \in {"API error: ", "API error (HTTP 403): "} -> "GenericApiError"
      [] o.type = "BeatportError" /\ o.prefix \in {"not found: ", "not found (HTTP 404)"} -> "NotFound"
      [] o.type = "ValueError" -> "Unauthorized"
      [] o.type = "ConnectionError" -> "TransportError"
      [] OTHER -> "Unclassified"

(***************************************************************************)
(* State.                                                                  *)
(***************************************************************************)
VARIABLES
    access_token,     \* BeatportApi.access_token
    refresh_token,    \* BeatportApi.refresh_token
    expires,          \* BeatportApi.expires
    now,              \* datetime.now()
    pc,               \* where the running call of the API object stands
    r,                \* _get's local r: the response of the last GET
    rr,               \* refresh's local r: the response of the last refresh post
    result,           \* what the call returned or raised
    gets,             \* GETs of the endpoint issued by the running call
    refreshPosts,     \* refresh posts issued by the running call
    anonFetches,      \* landing-page fetches issued by the running call
    bearers,          \* the bearer tokens the running call sent, in order
    got,              \* the responses to the running call's GETs, in order
    before,           \* the session when the running call began
    lastFailure,      \* how the call before the running one failed, where noted
    home,             \* get_anonymous_token's local r: the landing page it fetched
    ar,               \* auth's local r: the response of its last request
    authRequests,     \* requests issued by the running call of auth
    agg,              \* the collection the interface is aggregating, or "none"
    aggpc,            \* where the aggregation stands
    all_tracks_raw,   \* the items accumulated so far
    total_items,      \* the declared total read from page 1
    current_page,     \* the number of the last page requested
    num_pages,        \* the page count computed by the for-loop aggregations
    requested,        \* the page requests issued, as <<page, per_page>>, in order
    modes,            \* how the server answered each of them
    warned,           \* the pagination mismatch warning was logged
    aggResult,        \* what the aggregation returned or raised
    srvTotal,         \* the total the server declares for the collection
    ipc,              \* where ModuleInterface stands: its constructor's line, or "ready"
    lpc,              \* where the running call of ModuleInterface.login stands
    stored,           \* the three keys of the host's temporary settings store
    restored,         \* the session the constructor read from the store
    module_settings,  \* the username and the password of the host's settings
    disable_subscription_check,
    quality_parse,    \* the quality the adapter requests for HIGH, HIFI and LOSSLESS
    loginBefore,      \* the session when the running call of login began
    authRuns,         \* calls of auth that have returned since construction
    iresult,          \* what the constructor raised
    info,             \* the catalog operation that is running: "album", "track" or "none"
    infopc,           \* which of its requests comes next
    album_data,       \* where get_album_info's album_data came from
    tracks,           \* get_album_info's local tracks
    total_tracks,     \* get_album_info's local total_tracks
    track_page,       \* the last page of tracks requested
    fetched,          \* how each request of the operation ended
    infoResult,       \* what the operation returned or raised
    callpc,           \* where each of two calls of _get on one instance stands
    posted,           \* the refresh posts so far: the token sent, and whether it was granted
    overlapped        \* two calls of _get have been in flight at the same time

sessVars == <<access_token, refresh_token, expires>>
callVars == <<pc, r, rr, result, gets, refreshPosts, anonFetches, bearers, got, before,
              lastFailure>>
authVars == <<home, ar, authRequests>>
aggVars == <<agg, aggpc, all_tracks_raw, total_items, current_page, num_pages, requested,
             modes, warned, aggResult, srvTotal>>
infoVars == <<info, infopc, album_data, tracks, total_tracks, track_page, fetched,
              infoResult>>
raceVars == <<callpc, posted, overlapped>>
ifaceVars == <<ipc, lpc, stored, restored, module_settings, disable_subscription_check,
               quality_parse, loginBefore, authRuns, iresult>>
vars == <<access_token, refresh_token, expires, now, pc, r, rr, result, gets,
          refreshPosts, anonFetches, bearers, got, before, lastFailure, home, ar,
          authRequests, agg, aggpc, all_tracks_raw, total_items, current_page, num_pages, requested,
          modes, warned, aggResult, srvTotal,
          ipc, lpc, stored, restored, module_settings, disable_subscription_check,
          quality_parse, loginBefore, authRuns, iresult,
          info, infopc, album_data, tracks, total_tracks, track_page, fetched, infoResult,
          callpc, posted, overlapped>>

Session == [access_token |-> access_token, refresh_token |-> refresh_token,
            expires |-> expires]
NoSession == [access_token |-> None, refresh_token |-> None, expires |-> None]

\* interface.py line 15 (session_settings) and lines 34-42 (quality_parse)
NoSettings == [username |-> EmptyStr, password |-> EmptyStr]
DefaultQuality == [HIGH |-> "medium", HIFI |-> "medium", LOSSLESS |-> "medium"]

(***************************************************************************)
(* What the server may answer.                                             *)
(***************************************************************************)
TokNames == <<"T1", "T2", "T3", "T4">>
Tokens == {JStr(<<TokNames[n]>>) : n \in 1..MaxTok}
Lifetimes == {JNum(n) : n \in 1..MaxLifetime}
Time(n) == [t |-> "time", v |-> n]

\* a catalog record, JSON error objects, an empty JSON object, text that is not JSON
CatalogRecord == Json(JDict(<< <<"id", JNum(1)>> >>))
ErrorObject == Json(JDict(<< <<"detail", JStr(<<"Territory", " ", "Restricted", ".">>)>> >>))
EmptyObject == Json(JDict(<< >>))
NotJsonText == RawText(<<"weird">>)

Responses ==
    {Response(s, b) : s \in SuccessStatuses, b \in {CatalogRecord, NotJsonText}}
    \cup {Response(s, NotJsonText) : s \in {204, 302, 500}}
    \cup {Response(500, ErrorObject)}
    \cup {Response(401, b) : b \in {ErrorObject, NotJsonText}}
    \cup {Response(s, b) : s \in {403, 404}, b \in {ErrorObject, EmptyObject, NotJsonText}}

\* answers of the token endpoint: a grant (complete, or with one of its fields
\* missing), or an error body
Grant(at, rt, n) ==
    Json(JDict(<< <<"access_token", at>>, <<"refresh_token", rt>>, <<"expires_in", n>> >>))
DropItem(b, k) == Json(JDict(SelectSeq(b.value.items, LAMBDA it : it[1] # k)))
GrantBodies == {Grant(at, rt, n) : at \in Tokens, rt \in Tokens, n \in Lifetimes}
PartialGrantBodies ==
    {DropItem(Grant(JStr(<<"T1">>), JStr(<<"T1">>), JNum(1)), k) :
        k \in {"access_token", "refresh_token", "expires_in"}}
RefreshErrorBodies ==
    { Json(JDict(<< <<"error", JStr(<<"invalid_grant">>)>> >>)),
      EmptyObject,
      RawText(<<"Bad", " ", "Gateway">>) }
RefreshResponses ==
    {Response(200, b) : b \in GrantBodies \cup PartialGrantBodies \cup {NotJsonText}}
    \cup {Response(s, b) : s \in {400, 401}, b \in RefreshErrorBodies}

(***************************************************************************)
(* BeatportApi.refresh, lines 150-162.                                     *)
(***************************************************************************)
\* the session and the return value / exception refresh ends with, for response q
RefreshEffect_ClearsOnFailure(q) ==
    LET keep == Session IN
    IF JsonFails(q)
    THEN keep @@ [out |-> Raise("JSONDecodeError", "", NoArg)]
    ELSE LET d == q.body.value IN
    IF q.status # 200
    THEN NoSession @@ [out |-> Return(d)]
    ELSE IF d.t # "dict"
    THEN keep @@ [out |-> Raise("TypeError", "", NoArg)]
    ELSE IF ~Has(d, "access_token")
    THEN keep @@ [out |-> Raise("KeyError", "access_token", NoArg)]
    ELSE IF ~Has(d, "refresh_token")
    THEN [keep EXCEPT !.access_token = Item(d, "access_token")]
         @@ [out |-> Raise("KeyError", "refresh_token", NoArg)]
    ELSE IF ~Has(d, "expires_in")
    THEN [keep EXCEPT !.access_token = Item(d, "access_token"),
                      !.refresh_token = Item(d, "refresh_token")]
         @@ [out |-> Raise("KeyError", "expires_in", NoArg)]
    ELSE [access_token |-> Item(d, "access_token"),
          refresh_token |-> Item(d, "refresh_token"),
          expires |-> Time(now + Item(d, "expires_in").v),
          out |-> Return(None)]
RefreshEffect_KeepsRefreshToken(q) ==
    LET keep == Session IN
    IF JsonFails(q)
    THEN keep @@ [out |-> Raise("JSONDecodeError", "", NoArg)]
    ELSE LET d == q.body.value IN
    IF q.status # 200
    THEN keep @@ [out |-> Return(d)]
    ELSE IF d.t # "dict"
    THEN keep @@ [out |-> Raise("TypeError", "", NoArg)]
    ELSE IF ~Has(d, "access_token")
    THEN keep @@ [out |-> Raise("KeyError", "access_token", NoArg)]
    ELSE IF ~Has(d, "refresh_token")
    THEN [keep EXCEPT !.access_token = Item(d, "access_token")]
         @@ [out |-> Raise("KeyError", "refresh_token", NoArg)]
    ELSE IF ~Has(d, "expires_in")
    THEN [keep EXCEPT !.access_token = Item(d, "access_token"),
                      !.refresh_token = Item(d, "refresh_token")]
         @@ [out |-> Raise("KeyError", "expires_in", NoArg)]
    ELSE [access_token |-> Item(d, "access_token"),
          refresh_token |-> refresh_token,
          expires |-> Time(now + Item(d, "expires_in").v),
          out |-> Return(None)]
RefreshEffect(q) ==
    LET keep == Session IN
    IF JsonFails(q)
    THEN keep @@ [out |-> Raise("JSONDecodeError", "", NoArg)]
    ELSE LET d == q.body.value IN
    IF q.status # 200
    THEN keep @@ [out |-> Return(d)]
    ELSE IF d.t # "dict"
    THEN keep @@ [out |-> Raise("TypeError", "", NoArg)]
    ELSE IF ~Has(d, "access_token")
    THEN keep @@ [out |-> Raise("KeyError", "access_token", NoArg)]
    ELSE IF ~Has(d, "refresh_token")
    THEN [keep EXCEPT !.access_token = Item(d, "access_token")]
         @@ [out |-> Raise("KeyError", "refresh_token", NoArg)]
    ELSE IF ~Has(d, "expires_in")
    THEN [keep EXCEPT !.access_token = Item(d, "access_token"),
                      !.refresh_token = Item(d, "refresh_token")]
         @@ [out |-> Raise("KeyError", "expires_in", NoArg)]
    ELSE [access_token |-> Item(d, "access_token"),
          refresh_token |-> Item(d, "refresh_token"),
          expires |-> Time(now + Item(d, "expires_in").v),
          out |-> Return(None)]

(***************************************************************************)
(* BeatportApi.get_anonymous_token, lines 27-62.                           *)
(***************************************************************************)
DefaultExpiresIn == 3600

\* the landing page: its status, whether the __NEXT_DATA__ script is in it, and the
\* script's content
HomePage(status, blob, doc) == [status |-> status, blob |-> blob, doc |-> doc]
NoHomePage == HomePage(0, FALSE, RawText(<< >>))

\* the first truthy entry of a sequence of search results
FirstFound(found) ==
    IF \E i \in 1..Len(found) : Truthy(found[i])
    THEN found[CHOOSE i \in 1..Len(found) :
                   Truthy(found[i]) /\ \A j \in 1..(i - 1) : ~Truthy(found[j])]
    ELSE None

\* lines 42-53
RECURSIVE find_token(_)
find_token(obj) ==
    IF obj.t = "dict"
    THEN IF Has(obj, "access_token") THEN obj
         ELSE FirstFound([i \in 1..Len(obj.items) |-> find_token(obj.items[i][2])])
    ELSE IF obj.t = "list"
    THEN FirstFound([i \in 1..Len(obj.elems) |-> find_token(obj.elems[i])])
    ELSE None

AnonEffect_KeepsRefreshToken(h) ==
    LET keep == Session IN
    IF h.status # 200
    THEN keep @@ [out |-> Raise("ConnectionError", "Failed to get Beatport homepage", NoArg)]
    ELSE IF ~h.blob
    THEN keep @@ [out |-> Raise("BeatportError",
                                "Could not find __NEXT_DATA__ on Beatport homepage", NoArg)]
    ELSE IF h.doc.shape = "text"
    THEN keep @@ [out |-> Raise("JSONDecodeError", "", NoArg)]
    ELSE LET token_data == find_token(h.doc.value) IN
    IF ~Truthy(token_data) \/ ~Has(token_data, "access_token")
    THEN keep @@ [out |-> Raise("BeatportError",
                                "Could not find anonymous access token on Beatport homepage",
                                NoArg)]
    ELSE LET expires_in == Get(token_data, "expires_in", JNum(DefaultExpiresIn)) IN
    IF expires_in.t # "num"
    THEN [access_token |-> Item(token_data, "access_token"), refresh_token |-> refresh_token,
          expires |-> expires, out |-> Raise("TypeError", "", NoArg)]
    ELSE [access_token |-> Item(token_data, "access_token"), refresh_token |-> refresh_token,
          expires |-> Time(now + expires_in.v), out |-> Return(None)]
\* lines 27-62: the session and the outcome get_anonymous_token ends with, for page h
AnonEffect(h) ==
    LET keep == Session IN
    IF h.status # 200
    THEN keep @@ [out |-> Raise("ConnectionError", "Failed to get Beatport homepage", NoArg)]
    ELSE IF ~h.blob
    THEN keep @@ [out |-> Raise("BeatportError",
                                "Could not find __NEXT_DATA__ on Beatport homepage", NoArg)]
    ELSE IF h.doc.shape = "text"
    THEN keep @@ [out |-> Raise("JSONDecodeError", "", NoArg)]
    ELSE LET token_data == find_token(h.doc.value) IN
    IF ~Truthy(token_data) \/ ~Has(token_data, "access_token")
    THEN keep @@ [out |-> Raise("BeatportError",
                                "Could not find anonymous access token on Beatport homepage",
                                NoArg)]
    ELSE LET expires_in == Get(token_data, "expires_in", JNum(DefaultExpiresIn)) IN
    IF expires_in.t # "num"
    THEN [access_token |-> Item(token_data, "access_token"), refresh_token |-> None,
          expires |-> expires, out |-> Raise("TypeError", "", NoArg)]
    ELSE [access_token |-> Item(token_data, "access_token"), refresh_token |-> None,
          expires |-> Time(now + expires_in.v), out |-> Return(None)]

\* landing pages the site may serve
HomeDocs ==
    { Json(JDict(<< <<"a", JDict(<< <<"access_token", tk>>, <<"expires_in", n>> >>)>> >>)) :
        tk \in Tokens, n \in Lifetimes }
    \cup { Json(JDict(<< <<"props", JList(<< JDict(<< <<"x", JNum(1)>> >>),
                                            JDict(<< <<"access_token", tk>> >>) >>)>> >>)) :
        tk \in Tokens }
    \cup { Json(JDict(<< <<"x", JDict(<< <<"access_token", JStr(<<"T2">>)>> >>)>>,
                         <<"y", JDict(<< <<"access_token", JStr(<<"T1">>)>>,
                                         <<"expires_in", JNum(1)>> >>)>> >>)),
           Json(JDict(<< <<"access_token", JStr(<<"T2">>)>>, <<"expires_in", None>> >>)),
           Json(JDict(<< <<"a", JNum(1)>> >>)), RawText(<<"weird">>) }
HomePages ==
    {HomePage(200, TRUE, d) : d \in HomeDocs}
    \cup {HomePage(200, FALSE, RawText(<< >>)), HomePage(500, FALSE, RawText(<< >>))}

(***************************************************************************)
(* Initial state: BeatportApi.__init__, lines 13-25.                       *)
(***************************************************************************)
Init ==
    /\ access_token = None
    /\ refresh_token = None
    /\ expires = None
    /\ now = 0
    /\ pc = "idle"
    /\ r = NoResponse
    /\ rr = NoResponse
    /\ result = NoOutcome
    /\ gets = 0
    /\ refreshPosts = 0
    /\ anonFetches = 0
    /\ bearers = << >>
    /\ got = << >>
    /\ before = NoSession
    /\ lastFailure = "none"
    /\ home = NoHomePage
    /\ ar = NoResponse
    /\ authRequests = 0
    /\ agg = "none"
    /\ aggpc = "idle"
    /\ all_tracks_raw = << >>
    /\ total_items = None
    /\ current_page = 0
    /\ num_pages = 0
    /\ requested = << >>
    /\ modes = << >>
    /\ warned = FALSE
    /\ aggResult = NoOutcome
    /\ srvTotal = 0
    /\ ipc = "unbuilt"
    /\ lpc = "none"
    /\ stored = NoSession
    /\ restored = NoSession
    /\ module_settings = NoSettings
    /\ disable_subscription_check = FALSE
    /\ quality_parse = DefaultQuality
    /\ loginBefore = NoSession
    /\ authRuns = 0
    /\ iresult = NoOutcome
    /\ info = "none"
    /\ infopc = "idle"
    /\ album_data = "none"
    /\ tracks = << >>
    /\ total_tracks = None
    /\ track_page = 0
    /\ fetched = << >>
    /\ infoResult = NoOutcome
    /\ callpc = [c \in {1, 2} |-> "idle"]
    /\ posted = << >>
    /\ overlapped = FALSE

\* the clock advances
Tick ==
    /\ pc # "done"
    /\ now < MaxTime
    /\ now' = now + 1
    /\ UNCHANGED <<infoVars, raceVars, ifaceVars, aggVars, authVars, sessVars, callVars>>

\* BeatportApi.set_session, lines 164-167
set_session(at, rt, ex) ==
    /\ pc = "idle"
    /\ access_token' = at
    /\ refresh_token' = rt
    /\ expires' = ex
    /\ UNCHANGED <<infoVars, raceVars, ifaceVars, aggVars, authVars, now, callVars>>

\* the session fields a restored session may hold
StoredTimes == {None} \cup {Time(n) : n \in 0..(MaxTime + MaxLifetime)}

(***************************************************************************)
(* BeatportApi._get, lines 176-314, one action per request it issues.      *)
(***************************************************************************)
\* line 181: the first GET and, unless it answers 401, lines 199-314
Get1_GivesUpAfterFailure(q) ==
    /\ UNCHANGED <<lastFailure, infoVars, raceVars>>
    /\ pc = "idle"
    /\ r' = q
    /\ gets' = 1
    /\ bearers' = <<access_token>>
    /\ got' = <<q>>
    /\ before' = Session
    /\ IF q.status = 401 /\ lastFailure = "none"
       THEN pc' = "reacquire" /\ result' = NoOutcome
       ELSE IF q.status = 401
       THEN pc' = "done" /\ result' = Raise("ValueError", "Refresh failed: ", q.body)
       ELSE pc' = "done" /\ result' = Finish(q)
    /\ UNCHANGED <<ifaceVars, aggVars, authVars, sessVars, now, rr, refreshPosts, anonFetches>>
Get1_DropsTokenOnError(q) ==
    /\ UNCHANGED <<lastFailure, infoVars, raceVars>>
    /\ pc = "idle"
    /\ r' = q
    /\ gets' = 1
    /\ bearers' = <<access_token>>
    /\ got' = <<q>>
    /\ before' = Session
    /\ IF q.status = 401
       THEN pc' = "reacquire" /\ result' = NoOutcome
       ELSE pc' = "done" /\ result' = Finish(q)
    /\ access_token' = IF q.status \in {403, 404} THEN None ELSE access_token
    /\ UNCHANGED <<ifaceVars, aggVars, authVars, refresh_token, expires, now, rr, refreshPosts,
                   anonFetches>>
Get1(q) ==
    /\ UNCHANGED <<lastFailure, infoVars, raceVars>>
    /\ pc = "idle"
    /\ r' = q
    /\ gets' = 1
    /\ bearers' = <<access_token>>
    /\ got' = <<q>>
    /\ before' = Session
    /\ IF q.status = 401
       THEN pc' = "reacquire" /\ result' = NoOutcome
       ELSE pc' = "done" /\ result' = Finish(q)
    /\ UNCHANGED <<ifaceVars, aggVars, authVars, sessVars, now, rr, refreshPosts, anonFetches>>

\* lines 185-187: no refresh token, so the anonymous token is fetched again
ReacquireAnonymous(h) ==
    /\ UNCHANGED <<lastFailure, infoVars, raceVars>>
    /\ pc = "reacquire"
    /\ ~Truthy(refresh_token)
    /\ LET e == AnonEffect(h) IN
       /\ access_token' = e.access_token
       /\ refresh_token' = e.refresh_token
       /\ expires' = e.expires
       /\ IF e.out.type = "return"
          THEN pc' = "retry" /\ result' = NoOutcome
          ELSE pc' = "done" /\ result' = e.out
    /\ anonFetches' = anonFetches + 1
    /\ home' = h
    /\ UNCHANGED <<ifaceVars, aggVars, ar, authRequests, now, r, rr, gets, refreshPosts, bearers, got,
                   before>>

\* lines 188-191: the refresh token is posted; a truthy return value is the failure signal
RefreshSignalsFailure_Inverted(out) == ~Truthy(out.arg)
RefreshSignalsFailure(out) == Truthy(out.arg)
ReacquireRefresh_Always(q) ==
    /\ UNCHANGED <<lastFailure, infoVars, raceVars>>
    /\ pc = "reacquire"
    /\ LET e == RefreshEffect(q) IN
       /\ access_token' = e.access_token
       /\ refresh_token' = e.refresh_token
       /\ expires' = e.expires
       /\ IF e.out.type # "return"
          THEN pc' = "done" /\ result' = e.out
          ELSE IF RefreshSignalsFailure(e.out)
          THEN pc' = "done" /\ result' = Raise("ValueError", "Refresh failed: ", r.body)
          ELSE pc' = "retry" /\ result' = NoOutcome
    /\ rr' = q
    /\ refreshPosts' = refreshPosts + 1
    /\ UNCHANGED <<ifaceVars, aggVars, authVars, now, r, gets, anonFetches, bearers, got, before>>
ReacquireRefresh(q) ==
    /\ UNCHANGED <<lastFailure, infoVars, raceVars>>
    /\ pc = "reacquire"
    /\ Truthy(refresh_token)
    /\ LET e == RefreshEffect(q) IN
       /\ access_token' = e.access_token
       /\ refresh_token' = e.refresh_token
       /\ expires' = e.expires
       /\ IF e.out.type # "return"
          THEN pc' = "done" /\ result' = e.out
          ELSE IF RefreshSignalsFailure(e.out)
          THEN pc' = "done" /\ result' = Raise("ValueError", "Refresh failed: ", r.body)
          ELSE pc' = "retry" /\ result' = NoOutcome
    /\ rr' = q
    /\ refreshPosts' = refreshPosts + 1
    /\ UNCHANGED <<ifaceVars, aggVars, authVars, now, r, gets, anonFetches, bearers, got, before>>

Get2_SendsRejectedToken(q) ==
    /\ UNCHANGED <<lastFailure, infoVars, raceVars>>
    /\ pc = "retry"
    /\ r' = q
    /\ gets' = gets + 1
    /\ bearers' = Append(bearers, before.access_token)
    /\ got' = Append(got, q)
    /\ pc' = "done"
    /\ result' = IF q.status = 401
                 THEN Raise("ValueError", "Authentication failed after retry: ", q.body)
                 ELSE Finish(q)
    /\ UNCHANGED <<ifaceVars, aggVars, authVars, sessVars, now, rr, refreshPosts, anonFetches, before>>
Get2_ReportsUnauthorized(q) ==
    /\ UNCHANGED <<lastFailure, infoVars, raceVars>>
    /\ pc = "retry"
    /\ r' = q
    /\ gets' = gets + 1
    /\ bearers' = Append(bearers, access_token)
    /\ got' = Append(got, q)
    /\ pc' = "done"
    /\ result' = IF q.status \notin SuccessStatuses
                 THEN Raise("ValueError", "Authentication failed after retry: ", q.body)
                 ELSE Finish(q)
    /\ UNCHANGED <<ifaceVars, aggVars, authVars, sessVars, now, rr, refreshPosts, anonFetches, before>>
Get2_NoSecondCheck(q) ==
    /\ UNCHANGED <<lastFailure, infoVars, raceVars>>
    /\ pc = "retry"
    /\ r' = q
    /\ gets' = gets + 1
    /\ bearers' = Append(bearers, access_token)
    /\ got' = Append(got, q)
    /\ pc' = "done"
    /\ result' = Finish(q)
    /\ UNCHANGED <<ifaceVars, aggVars, authVars, sessVars, now, rr, refreshPosts, anonFetches, before>>
Get2_RetriesAgain(q) ==
    /\ UNCHANGED <<lastFailure, infoVars, raceVars>>
    /\ pc = "retry"
    /\ r' = q
    /\ gets' = gets + 1
    /\ bearers' = Append(bearers, access_token)
    /\ got' = Append(got, q)
    /\ IF q.status = 401
       THEN pc' = "retry" /\ result' = NoOutcome
       ELSE pc' = "done" /\ result' = Finish(q)
    /\ UNCHANGED <<ifaceVars, aggVars, authVars, sessVars, now, rr, refreshPosts, anonFetches, before>>
\* lines 194-197: the retried GET and, unless it answers 401 again, lines 199-314
Get2(q) ==
    /\ UNCHANGED <<lastFailure, infoVars, raceVars>>
    /\ pc = "retry"
    /\ r' = q
    /\ gets' = gets + 1
    /\ bearers' = Append(bearers, access_token)
    /\ got' = Append(got, q)
    /\ pc' = "done"
    /\ result' = IF q.status = 401
                 THEN Raise("ValueError", "Authentication failed after retry: ", q.body)
                 ELSE Finish(q)
    /\ UNCHANGED <<ifaceVars, aggVars, authVars, sessVars, now, rr, refreshPosts, anonFetches, before>>

\* how a call that ended with outcome o failed: with the ValueError of the 401
\* cycle, with another exception, or not at all
FailureOf(o) ==
    CASE o.type \in {"return", "none"} -> "none"
      [] Kind(o) = "Unauthorized" -> "Unauthorized"
      [] OTHER -> "other"

CallEnds_SavesSession ==
    /\ pc = "done"
    /\ pc' = "idle"
    /\ r' = NoResponse
    /\ rr' = NoResponse
    /\ result' = NoOutcome
    /\ gets' = 0
    /\ refreshPosts' = 0
    /\ anonFetches' = 0
    /\ bearers' = << >>
    /\ got' = << >>
    /\ before' = NoSession
    /\ lastFailure' = lastFailure
    /\ home' = NoHomePage
    /\ ar' = NoResponse
    /\ authRequests' = 0
    /\ stored' = Session
    /\ UNCHANGED <<ipc, lpc, restored, module_settings, disable_subscription_check,
                   quality_parse, loginBefore, authRuns, iresult, aggVars, infoVars, raceVars, sessVars, now>>
\* the call has returned or raised; the caller goes on
CallEnds ==
    /\ pc = "done"
    /\ pc' = "idle"
    /\ r' = NoResponse
    /\ rr' = NoResponse
    /\ result' = NoOutcome
    /\ gets' = 0
    /\ refreshPosts' = 0
    /\ anonFetches' = 0
    /\ bearers' = << >>
    /\ got' = << >>
    /\ before' = NoSession
    /\ lastFailure' = lastFailure
    /\ home' = NoHomePage
    /\ ar' = NoResponse
    /\ authRequests' = 0
    /\ UNCHANGED <<infoVars, raceVars, ifaceVars, aggVars, sessVars, now>>

\* the call has returned or raised and the way it failed is noted for the call that
\* follows it
CallEndsNoted ==
    /\ pc = "done"
    /\ pc' = "idle"
    /\ r' = NoResponse
    /\ rr' = NoResponse
    /\ result' = NoOutcome
    /\ gets' = 0
    /\ refreshPosts' = 0
    /\ anonFetches' = 0
    /\ bearers' = << >>
    /\ got' = << >>
    /\ before' = NoSession
    /\ lastFailure' = FailureOf(result)
    /\ home' = NoHomePage
    /\ ar' = NoResponse
    /\ authRequests' = 0
    /\ UNCHANGED <<infoVars, raceVars, ifaceVars, aggVars, sessVars, now>>

\* BeatportApi.refresh called on its own (ModuleInterface.refresh_login, line 93)
refresh(q) ==
    /\ UNCHANGED <<lastFailure, infoVars, raceVars>>
    /\ pc = "idle"
    /\ LET e == RefreshEffect(q) IN
       /\ access_token' = e.access_token
       /\ refresh_token' = e.refresh_token
       /\ expires' = e.expires
       /\ result' = e.out
    /\ pc' = "done"
    /\ rr' = q
    /\ refreshPosts' = 1
    /\ before' = Session
    /\ UNCHANGED <<ifaceVars, aggVars, authVars, now, r, gets, anonFetches, bearers, got>>

\* BeatportApi.get_anonymous_token called on its own, lines 27-62
get_anonymous_token(h) ==
    /\ UNCHANGED <<lastFailure, infoVars, raceVars>>
    /\ pc = "idle"
    /\ LET e == AnonEffect(h) IN
       /\ access_token' = e.access_token
       /\ refresh_token' = e.refresh_token
       /\ expires' = e.expires
       /\ result' = e.out
    /\ pc' = "done"
    /\ home' = h
    /\ anonFetches' = 1
    /\ before' = Session
    /\ UNCHANGED <<ifaceVars, aggVars, ar, authRequests, now, r, rr, gets, refreshPosts, bearers, got>>

(***************************************************************************)
(* BeatportApi.auth, lines 72-148, one action per request it issues.       *)
(***************************************************************************)
\* an answer of the authorize endpoint: its status and what its Location header holds
\* ("absent": no header, "login": a URL without code=, "code": a URL with code=)
Redirect(status, location) ==
    [status |-> status, location |-> location, body |-> RawText(<<"weird">>)]
AuthorizeResponses ==
    {Redirect(302, l) : l \in {"absent", "login", "code"}} \cup {Redirect(200, "absent")}

\* the validation messages one field of a login error may carry
BlankMessage == JStr(Sp(<<"This", "field", "may", "not", "be", "blank", ".">>))
FieldErrors ==
    { Absent,
      JList(<< BlankMessage >>),
      JList(<< JStr(Sp(<<"too", "short">>)), JStr(<<"Blank">>) >>),
      JList(<< JStr(Sp(<<"too", "short">>)) >>),
      JList(<< >>),
      JList(<< JDict(<< <<"code", JStr(<<"blank">>)>> >>) >>),
      BlankMessage,
      None }

LoginErrorBodies ==
    { Json(JDict(Field("username", u) \o Field("password", p))) :
          u \in FieldErrors, p \in FieldErrors }
    \cup { Json(JList(<< BlankMessage >>)),
           Json(JDict(<< <<"detail", JStr(<<"blank">>)>> >>)),
           RawText(<<"blank">>), RawText(<< >>) }
LoginResponses ==
    {Response(200, RawText(<<"weird">>))}
    \cup {Response(s, b) : s \in {400, 403}, b \in LoginErrorBodies}

\* any("blank" in str(msg).lower() for msg in errors)
AnyBlank(errors) ==
    \E i \in 1..Len(Elements(errors)) :
        Contains(<<"blank">>, Lower(Str(Elements(errors)[i])))

MissingCredentials ==
    Raise("BeatportError", "Beatport credentials are missing in settings.json. ", NoArg)

\* lines 97-114: what auth raises on a login answer other than 200
LoginError_IgnoresPassword(q) ==
    IF JsonFails(q) THEN Raise("ConnectionError", "", q.body)
    ELSE LET error_data == q.body.value IN
    IF error_data.t = "dict" /\ Has(error_data, "username") /\ Has(error_data, "password")
    THEN LET username_errors == Get(error_data, "username", JList(<< >>))
             password_errors == Get(error_data, "password", JList(<< >>))
         IN IF ~Iterable(username_errors) THEN Raise("TypeError", "", NoArg)
            ELSE IF ~AnyBlank(username_errors) THEN Raise("ConnectionError", "", q.body)
            ELSE MissingCredentials
    ELSE Raise("ConnectionError", "", q.body)
LoginError(q) ==
    IF JsonFails(q) THEN Raise("ConnectionError", "", q.body)
    ELSE LET error_data == q.body.value IN
    IF error_data.t = "dict" /\ Has(error_data, "username") /\ Has(error_data, "password")
    THEN LET username_errors == Get(error_data, "username", JList(<< >>))
             password_errors == Get(error_data, "password", JList(<< >>))
         IN IF ~Iterable(username_errors) THEN Raise("TypeError", "", NoArg)
            ELSE IF ~AnyBlank(username_errors) THEN Raise("ConnectionError", "", q.body)
            ELSE IF ~Iterable(password_errors) THEN Raise("TypeError", "", NoArg)
            ELSE IF ~AnyBlank(password_errors) THEN Raise("ConnectionError", "", q.body)
            ELSE MissingCredentials
    ELSE Raise("ConnectionError", "", q.body)

\* lines 137-148: the session and the outcome auth ends with, for token answer q
AuthTokenEffect(q) ==
    LET keep == Session IN
    IF q.status # 200
    THEN keep @@ [out |-> Raise("ConnectionError", "", q.body)]
    ELSE IF JsonFails(q)
    THEN keep @@ [out |-> Raise("JSONDecodeError", "", NoArg)]
    ELSE LET d == q.body.value IN
    IF d.t # "dict"
    THEN keep @@ [out |-> Raise("TypeError", "", NoArg)]
    ELSE IF ~Has(d, "access_token")
    THEN keep @@ [out |-> Raise("KeyError", "access_token", NoArg)]
    ELSE IF ~Has(d, "refresh_token")
    THEN [keep EXCEPT !.access_token = Item(d, "access_token")]
         @@ [out |-> Raise("KeyError", "refresh_token", NoArg)]
    ELSE IF ~Has(d, "expires_in")
    THEN [keep EXCEPT !.access_token = Item(d, "access_token"),
                      !.refresh_token = Item(d, "refresh_token")]
         @@ [out |-> Raise("KeyError", "expires_in", NoArg)]
    ELSE [access_token |-> Item(d, "access_token"),
          refresh_token |-> Item(d, "refresh_token"),
          expires |-> Time(now + Item(d, "expires_in").v),
          out |-> Return(q.body)]

\* lines 79-90: the first authorize request
AuthAuthorize(q) ==
    /\ UNCHANGED <<lastFailure, infoVars, raceVars>>
    /\ pc = "idle"
    /\ ar' = q
    /\ authRequests' = 1
    /\ before' = Session
    /\ IF q.status # 302
       THEN pc' = "done" /\ result' = Raise("ConnectionError", "", q.body)
       ELSE IF q.location = "absent"
       THEN pc' = "done" /\ result' = Raise("KeyError", "location", NoArg)
       ELSE pc' = "auth_login" /\ result' = NoOutcome
    /\ UNCHANGED <<ifaceVars, aggVars, sessVars, now, r, rr, gets, refreshPosts, anonFetches, bearers,
                   got, home>>

\* lines 92-114: the login post
AuthLogin(q) ==
    /\ UNCHANGED <<lastFailure, infoVars, raceVars>>
    /\ pc = "auth_login"
    /\ ar' = q
    /\ authRequests' = authRequests + 1
    /\ IF q.status # 200
       THEN pc' = "done" /\ result' = LoginError(q)
       ELSE pc' = "auth_code" /\ result' = NoOutcome
    /\ UNCHANGED <<ifaceVars, aggVars, sessVars, now, r, rr, gets, refreshPosts, anonFetches, bearers,
                   got, before, home>>

\* lines 117-127: the second authorize request, whose redirect carries the code
AuthCode(q) ==
    /\ UNCHANGED <<lastFailure, infoVars, raceVars>>
    /\ pc = "auth_code"
    /\ ar' = q
    /\ authRequests' = authRequests + 1
    /\ IF q.status # 302
       THEN pc' = "done" /\ result' = Raise("ConnectionError", "", q.body)
       ELSE IF q.location = "absent"
       THEN pc' = "done" /\ result' = Raise("KeyError", "location", NoArg)
       ELSE IF q.location # "code"
       THEN pc' = "done" /\ result' = Raise("IndexError", "", NoArg)
       ELSE pc' = "auth_token" /\ result' = NoOutcome
    /\ UNCHANGED <<ifaceVars, aggVars, sessVars, now, r, rr, gets, refreshPosts, anonFetches, bearers,
                   got, before, home>>

\* lines 130-148: the code is exchanged for the tokens
AuthToken(q) ==
    /\ UNCHANGED <<lastFailure, infoVars, raceVars>>
    /\ pc = "auth_token"
    /\ ar' = q
    /\ authRequests' = authRequests + 1
    /\ LET e == AuthTokenEffect(q) IN
       /\ access_token' = e.access_token
       /\ refresh_token' = e.refresh_token
       /\ expires' = e.expires
       /\ result' = e.out
    /\ pc' = "done"
    /\ UNCHANGED <<ifaceVars, aggVars, now, r, rr, gets, refreshPosts, anonFetches, bearers, got,
                   before, home>>

Next ==
    \/ Tick
    \/ \E at \in Tokens \cup {None}, rt \in Tokens \cup {None}, ex \in StoredTimes :
           set_session(at, rt, ex)
    \/ \E q \in Responses : Get1(q)
    \/ \E h \in HomePages : ReacquireAnonymous(h)
    \/ \E q \in RefreshResponses : ReacquireRefresh(q)
    \/ \E q \in Responses : Get2(q)
    \/ \E q \in RefreshResponses : refresh(q)
    \/ \E h \in HomePages : get_anonymous_token(h)
    \/ \E q \in AuthorizeResponses : AuthAuthorize(q)
    \/ \E q \in LoginResponses : AuthLogin(q)
    \/ \E q \in AuthorizeResponses : AuthCode(q)
    \/ \E q \in RefreshResponses : AuthToken(q)
    \/ CallEnds

Spec == Init /\ [][Next]_vars

\* calls of _get one after the other, each knowing how the one before it failed
NextCalls ==
    \/ Tick
    \/ \E at \in Tokens \cup {None}, rt \in Tokens \cup {None}, ex \in {None, Time(0)} :
           set_session(at, rt, ex)
    \/ \E q \in Responses : Get1(q)
    \/ \E h \in HomePages : ReacquireAnonymous(h)
    \/ \E q \in RefreshResponses : ReacquireRefresh(q)
    \/ \E q \in Responses : Get2(q)
    \/ CallEndsNoted

SpecCalls == Init /\ [][NextCalls]_vars

(***************************************************************************)
(* Error bodies for the 403/404 classification: JSON objects whose detail, *)
(* error and message fields are built from chunks of text, at most         *)
(* MaxChunks chunks in one body, and bodies that are no JSON object.       *)
(***************************************************************************)
Chunks ==
    { Sp(<<"not", "available", "in", "your", "territory">>),
      Sp(<<"region", "not", "allowed">>),
      Sp(<<"This", "content", "is", "not", "available", "in", "your", "region">>),
      <<"Territory">>, <<"region">>, <<"restricted">>,
      <<"Subscription">>, Sp(<<"not", "available">>),
      Sp(<<"not", "available", "for", "download">>), <<"stream">>,
      Sp(<<"weird", "account", "flag">>), <<"x">>, <<".">> }

\* the texts made of exactly k chunks
RECURSIVE ChunkTexts(_)
ChunkTexts(k) ==
    IF k = 0 THEN {<< >>} ELSE {c \o t : c \in Chunks, t \in ChunkTexts(k - 1)}

\* a field carrying k chunks of text; with no text the field is absent
FieldVals(k) == IF k = 0 THEN {Absent} ELSE {JStr(t) : t \in ChunkTexts(k)}

\* values of a field that are no text
OddVals == {None, EmptyStr, JNum(0), JNum(5), JList(<< JStr(<<"x">>) >>)}

ErrorDict(d, e, m) == JDict(Field("detail", d) \o Field("error", e) \o Field("message", m))

ErrorDicts ==
    UNION { { ErrorDict(d, e, m) :
                d \in FieldVals(k[1]), e \in FieldVals(k[2]), m \in FieldVals(k[3]) } :
            k \in {k \in (0..MaxChunks) \X (0..MaxChunks) \X (0..MaxChunks) :
                       k[1] + k[2] + k[3] <= MaxChunks} }
    \cup { ErrorDict(JStr(explicit_region_phrases[n]), Absent, Absent) :
             n \in 1..Len(explicit_region_phrases) }
    \cup { ErrorDict(JStr(<<"territory", "TAB", " ", "restricted">>), Absent, Absent),
           ErrorDict(JStr(<<"region", " ", "restricted">>), Absent, Absent),
           ErrorDict(JStr(Sp(<<"subscription", "needed">>)), Absent, Absent),
           ErrorDict(JStr(Sp(<<"not", "available", "in", "your", "territory">>)),
                     JStr(<<"Subscription">>), JStr(<<"stream">>)),
           JDict(<< <<"error_code", JStr(<<"territory", " ", "restricted">>)>> >>) }
    \cup { ErrorDict(d, e, m) :
             d \in OddVals \cup {Absent},
             e \in OddVals \cup {Absent, JStr(<<"Subscription">>)},
             m \in {Absent, None, JStr(Sp(<<"weird", "account", "flag">>))} }

ErrorBodies ==
    {Json(d) : d \in ErrorDicts}
    \cup {Json(JList(<< >>)), Json(JStr(<<"weird">>)), RawText(<<"weird">>), RawText(<< >>)}

\* bodies of a 404: only which field is the first non-empty one matters
NotFoundBodies ==
    { Json(ErrorDict(d, e, m)) :
        d \in OddVals \cup {Absent, JStr(<<"Territory">>)},
        e \in {Absent, None, JStr(<<"x">>)},
        m \in {Absent, JStr(Sp(<<"weird", "account", "flag">>))} }
    \cup {Json(JList(<< >>)), RawText(<<"weird">>), RawText(<< >>)}

ErrorResponses ==
    {Response(403, b) : b \in ErrorBodies} \cup {Response(404, b) : b \in NotFoundBodies}

\* the dispatcher alone, answering 403 and 404 with every error body
NextClassify ==
    \/ \E q \in ErrorResponses : Get1(q)
    \/ CallEnds

SpecClassify == Init /\ [][NextClassify]_vars

(***************************************************************************)
(* Properties of the 403 classification (checked under SpecClassify).      *)
(***************************************************************************)
\* the call ended on a 403 whose body is a JSON object
Ended403Object ==
    /\ pc = "done"
    /\ r.status = 403
    /\ r.body.shape = "json"
    /\ r.body.value.t = "dict"

\* the three text fields of the 403 body, absent ones as empty strings
Fields403 ==
    LET d == r.body.value IN
    << Get(d, "detail", EmptyStr), Get(d, "error", EmptyStr), Get(d, "message", EmptyStr) >>

\* every field that is not empty is text, so that the fields have a concatenation
FieldsAreText == \A i \in 1..3 : Truthy(Fields403[i]) => Fields403[i].t = "str"

\* the lower-cased concatenation of the non-empty fields, one space between them
LowerText403 ==
    LET f == Fields403
        ne == SelectSeq(f, Truthy)
    IN Lower(JoinSpace([i \in 1..Len(ne) |-> ne[i].v]))

RegionRule == IsRegionLocked(LowerText403)
SubscriptionRule == Contains(<<"subscription">>, LowerText403)
ContentRule ==
    /\ Contains(Sp(<<"not", "available">>), LowerText403)
    /\ Contains(<<"download">>, LowerText403) \/ Contains(<<"stream">>, LowerText403)

\* C6: a 403 with a JSON object body is classified by the first rule that matches, in
\* the order region phrase, "subscription", "not available" with "download" or
\* "stream", generic; a text matching several rules gets the earliest kind.
C6_ClassificationOrder ==
    (Ended403Object /\ FieldsAreText) =>
        /\ RegionRule => Kind(result) = "RegionLocked"
        /\ (~RegionRule /\ SubscriptionRule) => Kind(result) = "SubscriptionRequired"
        /\ (~RegionRule /\ ~SubscriptionRule /\ ContentRule)
               => Kind(result) = "ContentUnavailable"
        /\ (~RegionRule /\ ~SubscriptionRule /\ ~ContentRule)
               => Kind(result) = "GenericApiError"

\* a 403 whose text matches the region rule, the subscription rule and the content rule
C6_Witness ==
    /\ Ended403Object /\ FieldsAreText
    /\ RegionRule /\ SubscriptionRule /\ ContentRule
    /\ Kind(result) = "RegionLocked"

\* w, one or more whitespace characters, "restricted", anywhere in t
ContainsRestricted(w, t) ==
    \E i \in 1..Len(t) : \E j \in (i + 2)..Len(t) :
        /\ t[i] = w
        /\ t[j] = "restricted"
        /\ \A k \in (i + 1)..(j - 1) : t[k] \in WhitespaceAtoms

\* the text holds one of the fixed region phrases, or territory/region restricted
HoldsRegionPhrase(t) ==
    \/ \E n \in 1..Len(explicit_region_phrases) : Contains(explicit_region_phrases[n], t)
    \/ ContainsRestricted("territory", t)
    \/ ContainsRestricted("region", t)

\* C7: a 403 is reported RegionLocked only if its error text contains one of the fixed
\* region phrases (or territory/region restricted); a text with none of them, also one
\* with the bare word territory or region, or an empty one, is never RegionLocked.
C7_RegionLockedOnlyOnPhrase ==
    (pc = "done" /\ r.status = 403 /\ Kind(result) = "RegionLocked") =>
        /\ Ended403Object
        /\ FieldsAreText
        /\ HoldsRegionPhrase(LowerText403)

\* a 403 whose text holds the bare words territory and region, and no region phrase
C7_Witness ==
    /\ Ended403Object /\ FieldsAreText
    /\ Contains(<<"territory">>, LowerText403)
    /\ Contains(<<"region">>, LowerText403)
    /\ ~HoldsRegionPhrase(LowerText403)
    /\ Kind(result) = "GenericApiError"

\* the first field among detail, error, message that is not empty
FirstNonEmpty403 ==
    Fields403[CHOOSE i \in 1..3 :
                  Truthy(Fields403[i]) /\ \A j \in 1..(i - 1) : ~Truthy(Fields403[j])]

\* the call ended on a 404 whose body is a JSON object, its three fields, and the
\* first of them that is not empty
Ended404Object ==
    /\ pc = "done"
    /\ r.status = 404
    /\ r.body.shape = "json"
    /\ r.body.value.t = "dict"
Fields404 ==
    LET d == r.body.value IN
    << Get(d, "detail", EmptyStr), Get(d, "error", EmptyStr), Get(d, "message", EmptyStr) >>
FirstNonEmpty404 ==
    Fields404[CHOOSE i \in 1..3 :
                  Truthy(Fields404[i]) /\ \A j \in 1..(i - 1) : ~Truthy(Fields404[j])]

\* the example of the specification: {"detail": "weird account flag"}
WeirdAccountFlag == Sp(<<"weird", "account", "flag">>)
WeirdResponse == Response(403, Json(ErrorDict(JStr(WeirdAccountFlag), Absent, Absent)))

\* C8: a 403 classified GenericApiError from a JSON object with a non-empty field
\* carries, after the "API error: " label, the upstream text of the first non-empty
\* field among detail, error, message, unchanged; for {"detail": "weird account flag"}
\* that text is "weird account flag".
C8_GenericKeepsUpstreamText ==
    /\ (/\ Ended403Object
        /\ Kind(result) = "GenericApiError"
        /\ \E i \in 1..3 : Truthy(Fields403[i])) =>
           /\ result.prefix = "API error: "
           /\ result.arg = RawText(FirstNonEmpty403.v)
    /\ (pc = "done" /\ r = WeirdResponse) =>
           result = Raise("BeatportError", "API error: ", RawText(WeirdAccountFlag))

\* detail is empty, error holds text with a capital letter, message holds other text
C8_Witness ==
    /\ Ended403Object
    /\ Kind(result) = "GenericApiError"
    /\ ~Truthy(Fields403[1]) /\ Truthy(Fields403[2]) /\ Truthy(Fields403[3])
    /\ Fields403[2].v # Lower(Fields403[2].v)
    /\ result.arg = RawText(Fields403[2].v)

\* C15 as stated: a 404 always makes _get fail with NotFound; with a JSON object body
\* the message is built from the first non-empty field among detail, error, message;
\* with an unparseable body it is the generic not-found string.
C15_NotFoundAlways ==
    (pc = "done" /\ r.status = 404) =>
        /\ Kind(result) = "NotFound"
        /\ JsonFails(r) => result = Raise("BeatportError", "not found (HTTP 404)", NoArg)
        /\ (Ended404Object /\ \E i \in 1..3 : Truthy(Fields404[i])) =>
               result = Raise("BeatportError", "not found: ", Fmt(FirstNonEmpty404))

\* C16 as stated: every 403, whatever the shape of its body, makes _get fail with a
\* classified error of kind RegionLocked, SubscriptionRequired, ContentUnavailable or
\* GenericApiError; an unparseable body gives GenericApiError with the raw text
\* truncated.
C16_Every403Classified ==
    (pc = "done" /\ r.status = 403) =>
        /\ Kind(result) \in {"RegionLocked", "SubscriptionRequired", "ContentUnavailable",
                             "GenericApiError"}
        /\ (JsonFails(r) /\ r.body.text # << >>) =>
               result = Raise("BeatportError", "API error (HTTP 403): ",
                              RawText(SubSeq(r.body.text, 1,
                                            IF Len(r.body.text) < 200
                                            THEN Len(r.body.text) ELSE 200)))

(***************************************************************************)
(* Properties of the dispatcher's 401 cycle and of refresh (under Spec).   *)
(***************************************************************************)
\* a _get call has ended after its first GET answered 401 with a refresh token held
Ended401WithRefreshToken ==
    /\ pc = "done"
    /\ Len(got) >= 1
    /\ got[1].status = 401
    /\ Truthy(before.refresh_token)

\* the refresh answered 200 with a complete grant
RefreshGranted == rr.status = 200 /\ rr.body \in GrantBodies

\* C1: with a refresh token held, a first GET answering 401, a refresh answering 200
\* and a retried GET answering 200, _get returns the parsed body of the second
\* response after exactly one refresh post and exactly two GETs.
C1_RefreshThenRetrySucceeds ==
    (Ended401WithRefreshToken /\ RefreshGranted) =>
        /\ gets = 2 /\ Len(got) = 2
        /\ refreshPosts = 1
        /\ anonFetches = 0
        /\ (got[2].status = 200 /\ ~JsonFails(got[2])) => result = Return(got[2].body)

\* the sequence 401, refresh 200, 200 has been played
C1_Witness ==
    /\ Ended401WithRefreshToken /\ RefreshGranted
    /\ Len(got) = 2 /\ got[2] = Response(200, CatalogRecord)
    /\ result = Return(CatalogRecord)
    /\ access_token # before.access_token

\* C2: when the first GET answers 401, the token is re-acquired and the retried GET
\* answers 401 again, _get raises "Authentication failed after retry" with the second
\* response's text, having issued two GETs and one re-acquisition and no more.
C2_Second401IsFatal ==
    (pc = "done" /\ Len(got) = 2 /\ got[2].status = 401) =>
        /\ got[1].status = 401
        /\ result = Raise("ValueError", "Authentication failed after retry: ", got[2].body)
        /\ gets = 2
        /\ refreshPosts + anonFetches = 1

\* 401, a successful refresh, 401 again
C2_Witness ==
    /\ Ended401WithRefreshToken /\ RefreshGranted
    /\ Len(got) = 2 /\ got[2].status = 401
    /\ Kind(result) = "Unauthorized"

\* C3: whatever the server answers, one call of _get issues at most two GETs of the
\* endpoint and at most one token re-acquisition, and it ends (returns or raises) once
\* the second GET, or a failed re-acquisition, or a first answer other than 401 is in.
C3_AtMostOneRetryCycle ==
    /\ gets <= 2
    /\ gets = Len(got)
    /\ refreshPosts + anonFetches <= 1
    /\ pc = "done" <=> result # NoOutcome
    /\ gets = 2 => pc = "done"
    /\ pc = "reacquire" => (gets = 1 /\ refreshPosts + anonFetches = 0)
    /\ pc = "retry" => (gets = 1 /\ refreshPosts + anonFetches = 1)

\* a call that used both GETs and a re-acquisition and then ended
C3_Witness ==
    /\ pc = "done" /\ gets = 2 /\ anonFetches = 1
    /\ got[2].status = 401

\* C4: when refresh receives a response other than 200, the session triple after the
\* call is the triple before the call.
C4_FailedRefreshKeepsSession ==
    (pc = "done" /\ refreshPosts = 1 /\ rr.status # 200) => Session = before

\* a refresh of a session holding tokens and an expiry was answered with an error
C4_Witness ==
    /\ pc = "done" /\ refreshPosts = 1 /\ rr.status # 200
    /\ gets = 0
    /\ Truthy(before.access_token) /\ Truthy(before.refresh_token) /\ Truthy(before.expires)
    /\ Session = before

\* an exception that is a ValueError (json's decode error is one)
IsValueError(o) == o.type \in {"ValueError", "JSONDecodeError"}

\* C5 as stated: when the first GET answers 401, a refresh token is held and the
\* refresh answers other than 200, whatever its body, _get fails as unauthorized and
\* the GET is not retried.
C5_FailedRefreshIsUnauthorized ==
    (Ended401WithRefreshToken /\ rr.status # 200) =>
        /\ IsValueError(result)
        /\ gets = 1

\* C14: _get returns the parsed JSON body unchanged exactly when the final response
\* status is 200, 201 or 202; a final status other than 200, 201, 202, 401, 403, 404
\* (204, 302, 500) raises ConnectionError carrying the raw response text.
C14_SuccessStatusesOnly ==
    (pc = "done" /\ gets >= 1) =>
        /\ result.type = "return" => (r.status \in {200, 201, 202} /\ result.arg = r.body)
        /\ (r.status \in {200, 201, 202} /\ ~JsonFails(r)) => result = Return(r.body)
        /\ r.status \notin {200, 201, 202, 401, 403, 404} =>
               result = Raise("ConnectionError", "", r.body)

\* a retried GET answered 204, a 2xx status that is no success
C14_Witness ==
    /\ pc = "done" /\ gets = 2
    /\ r.status = 204
    /\ result = Raise("ConnectionError", "", r.body)

\* _get is past the choice of the re-acquisition path
PastReacquire == pc = "retry" \/ (pc = "done" /\ gets >= 1 /\ got[1].status = 401)

\* C17: on a 401 the re-acquisition path is chosen by the session alone: with no
\* refresh token the anonymous token is fetched and no refresh is posted; with a
\* refresh token the refresh is posted and no anonymous token is fetched; no request
\* of auth is issued inside _get.
C17_ReacquirePathBySession ==
    gets >= 1 =>
        /\ ~Truthy(before.refresh_token) =>
               (refreshPosts = 0 /\ (PastReacquire => anonFetches = 1))
        /\ Truthy(before.refresh_token) =>
               (anonFetches = 0 /\ (PastReacquire => refreshPosts = 1))
        /\ authRequests = 0

\* a session holding an access token and no refresh token went the anonymous way
C17_Witness ==
    /\ pc = "done" /\ gets = 2
    /\ Truthy(before.access_token) /\ ~Truthy(before.refresh_token)
    /\ anonFetches = 1 /\ refreshPosts = 0
    /\ result.type = "return"

\* refresh was answered 200 with a complete grant
RefreshedOnItsOwn == pc = "done" /\ gets = 0 /\ refreshPosts = 1 /\ RefreshGranted

\* C18: when refresh receives a 200 response it overwrites all three session fields:
\* access_token and refresh_token take the values of the response and expires becomes
\* now plus the response's expires_in.
C18_RefreshOverwritesSession ==
    /\ RefreshedOnItsOwn =>
           /\ access_token = Item(rr.body.value, "access_token")
           /\ refresh_token = Item(rr.body.value, "refresh_token")
           /\ expires = Time(now + Item(rr.body.value, "expires_in").v)
    /\ (gets >= 1 /\ refreshPosts = 1 /\ RefreshGranted) =>
           /\ access_token = Item(rr.body.value, "access_token")
           /\ refresh_token = Item(rr.body.value, "refresh_token")
           /\ expires.t = "time"
           /\ (expires.v - Item(rr.body.value, "expires_in").v) \in 0..now

\* a session whose three fields all differ from the grant was refreshed
C18_Witness ==
    /\ RefreshedOnItsOwn
    /\ before.access_token \in Tokens /\ before.refresh_token \in Tokens
    /\ before.expires # None
    /\ access_token # before.access_token
    /\ refresh_token # before.refresh_token
    /\ expires # before.expires
    /\ result = Return(None)

(***************************************************************************)
(* Properties of get_anonymous_token (checked under Spec).                 *)
(***************************************************************************)
\* the JSON objects of a document, in document order
RECURSIVE ObjectsOf(_)
ObjectsOf(v) ==
    IF v.t = "dict"
    THEN <<v>> \o Flatten([i \in 1..Len(v.items) |-> ObjectsOf(v.items[i][2])])
    ELSE IF v.t = "list"
    THEN Flatten([i \in 1..Len(v.elems) |-> ObjectsOf(v.elems[i])])
    ELSE << >>

\* the objects of the landing page's blob that have an access_token member
TokenObjects ==
    IF home.doc.shape = "json"
    THEN SelectSeq(ObjectsOf(home.doc.value), LAMBDA o : Has(o, "access_token"))
    ELSE << >>

\* the landing page answered 200 and its blob holds a token object, whose lifetime is
\* a number of seconds where it declares one
AnonTokenServed ==
    /\ anonFetches = 1
    /\ home.status = 200 /\ home.blob
    /\ TokenObjects # << >>
    /\ Has(TokenObjects[1], "expires_in") => Item(TokenObjects[1], "expires_in").t = "num"

\* the lifetime the first token object declares, 3600 when it declares none
ServedLifetime ==
    IF Has(TokenObjects[1], "expires_in") THEN Item(TokenObjects[1], "expires_in").v
    ELSE 3600

\* C11: get_anonymous_token, given a 200 landing page whose blob holds an object with
\* access_token = T and expires_in = n (the first such object in document order), sets
\* access_token to T, expires to now + n seconds (now + 3600 when expires_in is absent)
\* and refresh_token to None, whatever the session held before.
C11_AnonymousTokenSetsSession ==
    AnonTokenServed =>
        /\ access_token = Item(TokenObjects[1], "access_token")
        /\ refresh_token = None
        /\ expires.t = "time"
        /\ gets = 0 => expires = Time(now + ServedLifetime)
        /\ gets > 0 => (expires.v - ServedLifetime) \in 0..now

\* a session holding a refresh token fetched the anonymous token from a nested object
C11_Witness ==
    /\ AnonTokenServed /\ gets = 0 /\ pc = "done"
    /\ Truthy(before.refresh_token) /\ before.expires = None
    /\ Len(ObjectsOf(home.doc.value)) = 2
    /\ Has(TokenObjects[1], "expires_in")
    /\ access_token # before.access_token
    /\ now > 0
    /\ expires = Time(now + ServedLifetime)

(***************************************************************************)
(* Properties of auth (checked under Spec).                                *)
(***************************************************************************)
\* auth ended on a login answer other than 200
LoginFailed == pc = "done" /\ authRequests = 2 /\ ar.status # 200

\* the login answer is a JSON object whose username and password members, where
\* present, are lists of validation messages
LoginErrorObject ==
    /\ ar.body.shape = "json"
    /\ ar.body.value.t = "dict"
    /\ \A k \in {"username", "password"} :
           Has(ar.body.value, k) => Item(ar.body.value, k).t = "list"

\* the member k of the login answer carries a message that mentions "blank"
CarriesBlank(k) ==
    /\ Has(ar.body.value, k)
    /\ \E i \in 1..Len(Item(ar.body.value, k).elems) :
           Contains(<<"blank">>, Lower(Str(Item(ar.body.value, k).elems[i])))

\* C12: when the login step of auth answers non-200 with a JSON object carrying a
\* "blank" validation error on both username and password, auth raises the
\* missing-credentials BeatportError; when only one of the two carries one, or the
\* body is not JSON, it raises ConnectionError with the raw body.
C12_BlankCredentialsDetected ==
    LoginFailed =>
        /\ (LoginErrorObject /\ CarriesBlank("username") /\ CarriesBlank("password")) =>
               /\ result.type = "BeatportError"
               /\ result.prefix = "Beatport credentials are missing in settings.json. "
        /\ (LoginErrorObject /\ (CarriesBlank("username") # CarriesBlank("password"))) =>
               result = Raise("ConnectionError", "", ar.body)
        /\ JsonFails(ar) => result = Raise("ConnectionError", "", ar.body)

\* both members carry a blank message, one of them capitalised and not the first
C12_Witness ==
    /\ LoginFailed /\ LoginErrorObject
    /\ CarriesBlank("username") /\ CarriesBlank("password")
    /\ Len(Item(ar.body.value, "username").elems) = 2
    /\ result.type = "BeatportError"
    /\ Session = before

(***************************************************************************)
(* Pagination: ModuleInterface.get_playlist_info (lines 387-421),          *)
(* get_artist_info (502-514), get_label_info (527-555) and get_album_info  *)
(* (648-654).  One action per page request.  An item is the number of its  *)
(* position in the server's collection.                                    *)
(***************************************************************************)
PerPage == 100

Min(a, b) == IF a < b THEN a ELSE b
Max(a, b) == IF a > b THEN a ELSE b

WhileKinds == {"playlist", "chart"}
ForKinds == {"artist", "album", "label_tracks", "label_releases"}
LabelKinds == {"label_tracks", "label_releases"}
Kinds == WhileKinds \cup ForKinds

\* the totals a collection may declare: around every multiple of the page size
Totals == {k * PerPage + d : k \in 0..MaxFullPages, d \in {0, 1, PerPage - 1}}

\* the items a well-behaved server holding T items puts on page k
WellItems(T, k) ==
    [i \in 1..Max(0, Min(PerPage, T - (k - 1) * PerPage)) |-> (k - 1) * PerPage + i]

\* the ways the server may answer a page request
Modes == {"full", "empty", "short", "over", "noresults", "nullresults", "nocount", "falsy"}

CanAnswer(T, k, mode) ==
    CASE mode = "short" -> Len(WellItems(T, k)) >= 2
      [] mode = "over" -> Len(WellItems(T, k)) < PerPage
      [] OTHER -> TRUE

\* the parsed body of the answer
PageData(T, k, mode) ==
    LET well == WellItems(T, k) IN
    CASE mode = "full" -> JDict(<< <<"results", JList(well)>>, <<"count", JNum(T)>> >>)
      [] mode = "empty" -> JDict(<< <<"results", JList(<< >>)>>, <<"count", JNum(T)>> >>)
      [] mode = "short" ->
             JDict(<< <<"results", JList(SubSeq(well, 1, Len(well) - 1))>>,
                      <<"count", JNum(T)>> >>)
      [] mode = "over" ->
             JDict(<< <<"results", JList([i \in 1..PerPage |-> (k - 1) * PerPage + i])>>,
                      <<"count", JNum(T)>> >>)
      [] mode = "noresults" -> JDict(<< <<"count", JNum(T)>> >>)
      [] mode = "nullresults" -> JDict(<< <<"results", None>>, <<"count", JNum(T)>> >>)
      [] mode = "nocount" -> JDict(<< <<"results", JList(well)>> >>)
      [] mode = "falsy" -> JDict(<< >>)

\* x or y
Or(x, y) == IF Truthy(x) THEN x ELSE y

\* the state of a running aggregation after a step: the accumulated items, the
\* declared total, the page count, whether it goes on, and what it ended with
AggState(acc, total, np, warn, out) ==
    [acc |-> acc, total |-> total, np |-> np, warn |-> warn, out |-> out]
Running == [type |-> "running", prefix |-> "", arg |-> NoArg]
Items(acc) == [type |-> "return", prefix |-> "", arg |-> Json(JList(acc))]
TypeError == Raise("TypeError", "", NoArg)

NumPages_OffByOne(total) == Max(1, (total + 100) \div 100)
\* max(1, (total + 99) // 100)
NumPages(total) == Max(1, (total + 99) \div 100)

\* lines 401-407 (playlist, chart): page 1 and the first test of the while condition
PlaylistFirst(d) ==
    LET results == Get(d, "results", None)
        total == IF Truthy(d) THEN Get(d, "count", JNum(0)) ELSE JNum(0)
    IN
    IF Truthy(d) /\ Has(d, "results") /\ results.t # "list"
    THEN AggState(<< >>, None, 0, FALSE, TypeError)
    ELSE LET acc == IF Truthy(d) /\ Has(d, "results") THEN results.elems ELSE << >> IN
    IF total.t # "num"
    THEN AggState(acc, total, 0, FALSE, TypeError)
    ELSE AggState(acc, total, 0, FALSE,
                  IF Len(acc) < total.v /\ total.v > 0 THEN Running ELSE Items(acc))

PlaylistNext_Prepends(acc, total, d) ==
    LET results == Get(d, "results", None) IN
    IF Truthy(d) /\ Has(d, "results") /\ Truthy(results)
    THEN IF results.t # "list"
         THEN AggState(acc, total, 0, FALSE, TypeError)
         ELSE LET more == results.elems \o acc IN
              AggState(more, total, 0, FALSE,
                       IF Len(more) < total.v /\ total.v > 0 THEN Running ELSE Items(more))
    ELSE AggState(acc, total, 0, TRUE, Items(acc))
\* lines 408-420 (playlist, chart): one more page and the next test of the condition
PlaylistNext(acc, total, d) ==
    LET results == Get(d, "results", None) IN
    IF Truthy(d) /\ Has(d, "results") /\ Truthy(results)
    THEN IF results.t # "list"
         THEN AggState(acc, total, 0, FALSE, TypeError)
         ELSE LET more == acc \o results.elems IN
              AggState(more, total, 0, FALSE,
                       IF Len(more) < total.v /\ total.v > 0 THEN Running ELSE Items(more))
    ELSE AggState(acc, total, 0, TRUE, Items(acc))

\* lines 507-509 (artist), 531-533 and 546-548 (label), 649-651 (album): page 1
ForFirst(kind, d) ==
    LET results == Get(d, "results", None)
        count == Get(d, "count", None)
    IN
    IF kind = "album"
    THEN IF count.t # "num" \/ results.t # "list"
         THEN AggState(<< >>, count, 0, FALSE, TypeError)
         ELSE AggState(results.elems, count, NumPages(count.v), FALSE,
                       IF 1 < NumPages(count.v) THEN Running ELSE Items(results.elems))
    ELSE LET list == Or(results, JList(<< >>))
             total == IF kind = "artist" THEN Or(count, JNum(0))
                      ELSE Or(count, JNum(IF list.t = "list" THEN Len(list.elems) ELSE 0))
         IN
         IF list.t # "list" \/ total.t # "num"
         THEN AggState(<< >>, total, 0, FALSE,
                       IF kind \in LabelKinds THEN Items(<< >>) ELSE TypeError)
         ELSE AggState(list.elems, total, NumPages(total.v), FALSE,
                       IF 1 < NumPages(total.v) THEN Running ELSE Items(list.elems))

\* lines 510-512 (artist), 534-536 and 549-551 (label), 652-654 (album): page 2, 3, ...
ForNext(kind, acc, total, np, page, d) ==
    LET results == Get(d, "results", None)
        list == IF kind = "album" THEN results ELSE Or(results, JList(<< >>))
    IN
    IF list.t # "list"
    THEN AggState(acc, total, np, FALSE, IF kind \in LabelKinds THEN Items(acc) ELSE TypeError)
    ELSE LET more == acc \o list.elems IN
         AggState(more, total, np, FALSE, IF page < np THEN Running ELSE Items(more))

\* the first page request of an aggregation and what is done with its answer
AggFirstPage(kind, T, mode) ==
    /\ aggpc = "idle"
    /\ CanAnswer(T, 1, mode)
    /\ mode # "full" => MaxFaults > 0
    /\ LET st == IF kind \in WhileKinds THEN PlaylistFirst(PageData(T, 1, mode))
                 ELSE ForFirst(kind, PageData(T, 1, mode))
       IN /\ all_tracks_raw' = st.acc
          /\ total_items' = st.total
          /\ num_pages' = st.np
          /\ warned' = st.warn
          /\ aggResult' = st.out
          /\ aggpc' = IF st.out = Running THEN "loop" ELSE "done"
    /\ agg' = kind
    /\ srvTotal' = T
    /\ current_page' = 1
    /\ requested' = << <<1, PerPage>> >>
    /\ modes' = <<mode>>
    /\ UNCHANGED <<infoVars, raceVars, ifaceVars, sessVars, now, callVars, authVars>>

\* one more page request and what is done with its answer
Faults == Cardinality({i \in 1..Len(modes) : modes[i] # "full"})
AggNextPage_SkipsPage(mode) ==
    /\ aggpc = "loop"
    /\ CanAnswer(srvTotal, current_page + 1, mode)
    /\ mode # "full" => Faults < MaxFaults
    /\ LET d == PageData(srvTotal, current_page + 1, mode)
           st == IF agg \in WhileKinds THEN PlaylistNext(all_tracks_raw, total_items, d)
                 ELSE ForNext(agg, all_tracks_raw, total_items, num_pages,
                              current_page + 1, d)
       IN /\ all_tracks_raw' = st.acc
          /\ warned' = st.warn
          /\ aggResult' = st.out
          /\ aggpc' = IF st.out = Running THEN "loop" ELSE "done"
    /\ current_page' = current_page + 1
    /\ requested' = Append(requested, <<current_page + 2, PerPage>>)
    /\ modes' = Append(modes, mode)
    /\ UNCHANGED <<infoVars, raceVars, ifaceVars, sessVars, now, callVars, authVars, agg, total_items, num_pages, srvTotal>>
AggNextPage(mode) ==
    /\ aggpc = "loop"
    /\ CanAnswer(srvTotal, current_page + 1, mode)
    /\ mode # "full" => Faults < MaxFaults
    /\ LET d == PageData(srvTotal, current_page + 1, mode)
           st == IF agg \in WhileKinds THEN PlaylistNext(all_tracks_raw, total_items, d)
                 ELSE ForNext(agg, all_tracks_raw, total_items, num_pages,
                              current_page + 1, d)
       IN /\ all_tracks_raw' = st.acc
          /\ warned' = st.warn
          /\ aggResult' = st.out
          /\ aggpc' = IF st.out = Running THEN "loop" ELSE "done"
    /\ current_page' = current_page + 1
    /\ requested' = Append(requested, <<current_page + 1, PerPage>>)
    /\ modes' = Append(modes, mode)
    /\ UNCHANGED <<infoVars, raceVars, ifaceVars, sessVars, now, callVars, authVars, agg, total_items, num_pages, srvTotal>>

\* the aggregation has returned or raised; the caller goes on
AggEnds ==
    /\ aggpc = "done"
    /\ agg' = "none"
    /\ aggpc' = "idle"
    /\ all_tracks_raw' = << >>
    /\ total_items' = None
    /\ current_page' = 0
    /\ num_pages' = 0
    /\ requested' = << >>
    /\ modes' = << >>
    /\ warned' = FALSE
    /\ aggResult' = NoOutcome
    /\ srvTotal' = 0
    /\ UNCHANGED <<infoVars, raceVars, ifaceVars, sessVars, now, callVars, authVars>>

NextPages ==
    \/ \E kind \in Kinds, T \in Totals, mode \in Modes : AggFirstPage(kind, T, mode)
    \/ \E mode \in Modes : AggNextPage(mode)
    \/ AggEnds

SpecPages == Init /\ [][NextPages]_vars

(***************************************************************************)
(* Properties of pagination (checked under SpecPages).                     *)
(***************************************************************************)
\* every page so far came from a well-behaved server: full, except possibly the last
AllPagesWell == \A i \in 1..Len(modes) : modes[i] = "full"

\* ceil(a / b)
CeilDiv(a, b) == IF a % b = 0 THEN a \div b ELSE (a \div b) + 1

\* C9: with a declared total T and every page full except possibly the last, every
\* aggregation (playlist, chart, artist, release, label tracks, label releases)
\* requests exactly ceil(T / 100) pages, one page when T = 0, and yields exactly the
\* T items.
C9_WellBehavedPagesYieldTotal ==
    (aggpc = "done" /\ AllPagesWell) =>
        /\ Len(requested) = Max(1, CeilDiv(srvTotal, PerPage))
        /\ \A i \in 1..Len(requested) : requested[i] = <<i, PerPage>>
        /\ Len(all_tracks_raw) = srvTotal
        /\ all_tracks_raw = [i \in 1..srvTotal |-> i]
        /\ aggResult = Items(all_tracks_raw)
        /\ ~warned

\* a release of 200 tracks was collected from two full pages
C9_Witness ==
    /\ aggpc = "done" /\ AllPagesWell
    /\ agg = "album"
    /\ srvTotal = 2 * PerPage
    /\ requested = << <<1, PerPage>>, <<2, PerPage>> >>
    /\ Len(all_tracks_raw) = 2 * PerPage

\* page k was answered with zero items after k-1 full pages, with k * 100 < T
EmptyPageAfterFull(k) ==
    /\ agg \in WhileKinds
    /\ k <= Len(modes)
    /\ \A i \in 1..(k - 1) : modes[i] = "full"
    /\ modes[k] = "empty"
    /\ k * PerPage < srvTotal

\* C10 as stated: in playlist/chart aggregation, when page k (k * 100 < T) returns zero
\* items after k-1 full pages, the aggregation halts at that page with exactly
\* (k-1) * 100 items, logs the mismatch, requests no further page and does not raise.
C10_EmptyPageHalts ==
    \A k \in 1..(MaxFullPages + 1) :
        EmptyPageAfterFull(k) =>
            /\ aggpc = "done"
            /\ Len(requested) = k
            /\ Len(all_tracks_raw) = (k - 1) * PerPage
            /\ warned
            /\ aggResult = Items(all_tracks_raw)

(***************************************************************************)
(* ModuleInterface: the constructor (lines 25-75), login (107-136),        *)
(* refresh_login (89-105), valid_account (138-152) and _save_session       *)
(* (77-87).  The requests are those of the BeatportApi actions above; the  *)
(* actions here are the adapter's code between them.  ipc names the line   *)
(* of the constructor that is running: "i55", "i60l" and "i72" are its     *)
(* three calls of login, "i58" the expiry test, "i60r" the refresh of      *)
(* refresh_login, "i63" the subscription check.                            *)
(***************************************************************************)
\* what the host's store and settings may hold
StoredSessions ==
    { [access_token |-> at, refresh_token |-> rt, expires |-> ex] :
          at \in {None, JStr(<<"T1">>)}, rt \in {None, JStr(<<"T1">>)},
          ex \in {None, Time(1)} }
Credentials(u, p) == [username |-> u, password |-> p]
Settings ==
    { Credentials(JStr(<<"user">>), JStr(<<"secret">>)),
      Credentials(EmptyStr, JStr(<<"secret">>)),
      Credentials(JStr(<<"user">>), EmptyStr),
      Credentials(None, EmptyStr),
      Credentials(JStr(<<" ">>), JStr(<<"secret">>)) }

\* what the server may answer to the adapter's requests
ProAccount == Json(JDict(<< <<"subscription", JStr(<<"bp", "_", "link", "_", "pro">>)>> >>))
BasicAccount == Json(JDict(<< <<"subscription", JStr(<<"bp", "_", "basic">>)>> >>))
NoAccount == Json(JDict(<< <<"subscription", None>> >>))
AdapterResponses ==
    { Response(200, ProAccount), Response(200, BasicAccount), Response(200, NoAccount),
      Response(401, NotJsonText),
      Response(403, Json(JDict(<< <<"detail", JStr(Sp(<<"Subscription", "needed">>))>> >>))) }
AdapterTokenResponses ==
    { Response(200, Grant(JStr(<<"T2">>), JStr(<<"T2">>), n)) : n \in Lifetimes }
    \cup { Response(200, Grant(JStr(<<"T2">>), None, JNum(1))),
           Response(200, Json(JDict(<< <<"access_token", JStr(<<"T2">>)>>,
                                       <<"refresh_token", JStr(<<"T2">>)>>,
                                       <<"expires_in", JNum(1)>>,
                                       <<"error_description", JStr(<<"weird">>)>> >>))),
           Response(400, Json(JDict(<< <<"error", JStr(<<"invalid_grant">>)>> >>))),
           Response(400, EmptyObject) }
AdapterLoginResponses ==
    { Response(200, RawText(<<"weird">>)),
      Response(400, Json(JDict(Field("username", JList(<< BlankMessage >>))
                               \o Field("password", JList(<< BlankMessage >>))))) }
AdapterHomePages ==
    { HomePage(200, TRUE, Json(JDict(<< <<"access_token", JStr(<<"T1">>)>>,
                                       <<"expires_in", JNum(1)>> >>))),
      HomePage(500, FALSE, RawText(<< >>)) }

\* line 53
NeedsLogin_OnlyWithoutAccessToken(session) ==
    session.refresh_token = None /\ session.access_token = None
NeedsLogin(session) == session.refresh_token = None

\* line 111
CredentialsMissing_EmailOnly(email, password) == ~Truthy(email)
CredentialsMissing(email, password) == ~Truthy(email) \/ ~Truthy(password)

\* lines 112-116 and 143
MissingCredentialsError ==
    Raise("module_error", "Beatport credentials are missing in settings.json. ", NoArg)
NoSubscriptionError ==
    Raise("module_error", "Beatport: Account does not have an active 'Link' subscription",
          NoArg)

\* lines 120-132: what login raises for the error_description of auth's return value
ErrorDescription(error_desc) ==
    IF /\ error_desc.t = "dict"
       /\ Has(error_desc, "username") /\ Has(error_desc, "password")
    THEN IF ~Iterable(Item(error_desc, "username")) THEN Raise("TypeError", "", NoArg)
         ELSE IF ~AnyBlank(Item(error_desc, "username"))
         THEN Raise("module_error", "", Fmt(error_desc))
         ELSE IF ~Iterable(Item(error_desc, "password")) THEN Raise("TypeError", "", NoArg)
         ELSE IF ~AnyBlank(Item(error_desc, "password"))
         THEN Raise("module_error", "", Fmt(error_desc))
         ELSE MissingCredentialsError
    ELSE Raise("module_error", "", Fmt(error_desc))

\* lines 138-152: valid_account, given what get_account returned or raised
ValidAccount(o) ==
    IF o.type # "return" THEN o
    ELSE LET account_data == o.arg.value IN
         IF account_data.t # "dict" THEN Raise("AttributeError", "", NoArg)
         ELSE IF ~Truthy(Get(account_data, "subscription", None)) THEN NoSubscriptionError
         ELSE IF Get(account_data, "subscription", EmptyStr).t # "str"
         THEN Raise("AttributeError", "", NoArg)
         ELSE Return(None)

\* lines 146-152: the qualities after the subscription check on account_data
QualityFor(account_data, quality) ==
    LET sub == Lower(Get(account_data, "subscription", EmptyStr).v) IN
    IF sub = <<"bp", "_", "link", "_", "pro">> \/ Contains(<<"pro">>, sub)
    THEN [HIGH |-> "high", HIFI |-> "lossless", LOSSLESS |-> "lossless"]
    ELSE quality

\* lines 67-68:  "subscription" in err_msg or "link" in err_msg,  err_msg = str(e).lower()
MentionsSubscription(o) ==
    LET text == IF o.arg.shape = "text" THEN o.arg.text ELSE Str(o.arg.value) IN
    \/ o.prefix \in {"subscription required", NoSubscriptionError.prefix}
    \/ Contains(<<"subscription">>, Lower(text))
    \/ Contains(<<"link">>, Lower(text))

\* where the constructor goes on when its call of login returns
AfterLogin(site) ==
    CASE site = "i55" -> "i58"
      [] site = "i60l" -> "i63"
      [] site = "i72" -> "ready"
LoginSites == {"i55", "i60l", "i72"}

\* the call of the API object has been consumed by the adapter
ResetCall ==
    /\ pc' = "idle"
    /\ r' = NoResponse
    /\ rr' = NoResponse
    /\ result' = NoOutcome
    /\ gets' = 0
    /\ refreshPosts' = 0
    /\ anonFetches' = 0
    /\ bearers' = << >>
    /\ got' = << >>
    /\ before' = NoSession
    /\ lastFailure' = lastFailure
    /\ home' = NoHomePage
    /\ ar' = NoResponse
    /\ authRequests' = 0

\* lines 44-56: the session is read from the store and handed to the API object; without
\* a stored refresh token login is called
Construct(session, settings, skip) ==
    /\ ipc = "unbuilt"
    /\ pc = "idle"
    /\ stored' = session
    /\ restored' = session
    /\ module_settings' = settings
    /\ disable_subscription_check' = skip
    /\ access_token' = session.access_token
    /\ refresh_token' = session.refresh_token
    /\ expires' = session.expires
    /\ IF NeedsLogin(session)
       THEN ipc' = "i55" /\ lpc' = "check" /\ loginBefore' = session
       ELSE ipc' = "i58" /\ lpc' = "none" /\ loginBefore' = loginBefore
    /\ UNCHANGED <<quality_parse, authRuns, iresult, now, callVars, authVars, aggVars, infoVars, raceVars>>

\* lines 107-116: login tests the credentials before anything else
LoginCheck ==
    /\ ipc \in LoginSites
    /\ lpc = "check"
    /\ IF CredentialsMissing(module_settings.username, module_settings.password)
       THEN ipc' = "failed" /\ iresult' = MissingCredentialsError /\ lpc' = lpc
       ELSE lpc' = "auth" /\ UNCHANGED <<ipc, iresult>>
    /\ UNCHANGED <<stored, restored, module_settings, disable_subscription_check,
                   quality_parse, loginBefore, authRuns, sessVars, now, callVars, authVars,
                   aggVars, infoVars, raceVars>>

\* lines 118-136, after auth has returned or raised: the error_description test and,
\* with the subscription check disabled, the rest of login
LoginAfterAuth ==
    /\ ipc \in LoginSites
    /\ lpc = "auth"
    /\ pc = "done"
    /\ IF result.type # "return"
       THEN /\ ipc' = "failed" /\ iresult' = result /\ lpc' = "none"
            /\ UNCHANGED <<stored, authRuns>>
       ELSE /\ authRuns' = authRuns + 1
            /\ LET error_desc == Get(result.arg.value, "error_description", None) IN
               IF error_desc # None
               THEN /\ ipc' = "failed" /\ iresult' = ErrorDescription(error_desc)
                    /\ lpc' = "none"
                    /\ UNCHANGED stored
               ELSE IF disable_subscription_check
               THEN /\ stored' = Session
                    /\ ipc' = AfterLogin(ipc) /\ lpc' = "none"
                    /\ UNCHANGED iresult
               ELSE /\ lpc' = "valid"
                    /\ UNCHANGED <<ipc, iresult, stored>>
    /\ ResetCall
    /\ UNCHANGED <<restored, module_settings, disable_subscription_check, quality_parse,
                   loginBefore, sessVars, now, aggVars, infoVars, raceVars>>

LoginAfterValid_SavesBeforeCheck ==
    /\ ipc \in LoginSites
    /\ lpc = "valid"
    /\ pc = "done"
    /\ stored' = Session
    /\ LET v == ValidAccount(result) IN
       IF v.type = "return"
       THEN /\ quality_parse' = QualityFor(result.arg.value, quality_parse)
            /\ ipc' = AfterLogin(ipc)
            /\ UNCHANGED iresult
       ELSE /\ ipc' = "failed" /\ iresult' = v
            /\ UNCHANGED quality_parse
    /\ lpc' = "none"
    /\ ResetCall
    /\ UNCHANGED <<restored, module_settings, disable_subscription_check, loginBefore,
                   authRuns, sessVars, now, aggVars, infoVars, raceVars>>
\* lines 134-136, after get_account has returned or raised: the subscription test and
\* _save_session
LoginAfterValid ==
    /\ ipc \in LoginSites
    /\ lpc = "valid"
    /\ pc = "done"
    /\ LET v == ValidAccount(result) IN
       IF v.type = "return"
       THEN /\ quality_parse' = QualityFor(result.arg.value, quality_parse)
            /\ stored' = Session
            /\ ipc' = AfterLogin(ipc)
            /\ UNCHANGED iresult
       ELSE /\ ipc' = "failed" /\ iresult' = v
            /\ UNCHANGED <<quality_parse, stored>>
    /\ lpc' = "none"
    /\ ResetCall
    /\ UNCHANGED <<restored, module_settings, disable_subscription_check, loginBefore,
                   authRuns, sessVars, now, aggVars, infoVars, raceVars>>

\* line 58: the expiry test on the session the constructor holds
CheckExpiry ==
    /\ ipc = "i58"
    /\ pc = "idle"
    /\ IF refresh_token # None /\ expires.t # "time"
       THEN ipc' = "failed" /\ iresult' = Raise("TypeError", "", NoArg)
       ELSE IF refresh_token # None /\ now > expires.v
       THEN ipc' = "i60r" /\ UNCHANGED iresult
       ELSE ipc' = "i63" /\ UNCHANGED iresult
    /\ UNCHANGED <<lpc, stored, restored, module_settings, disable_subscription_check,
                   quality_parse, loginBefore, authRuns, sessVars, now, callVars, authVars,
                   aggVars, infoVars, raceVars>>

RefreshLoginAfter_KeepsStore ==
    /\ ipc = "i60r"
    /\ pc = "done"
    /\ IF result.type # "return"
       THEN /\ ipc' = "failed" /\ iresult' = result
            /\ UNCHANGED <<lpc, stored, loginBefore>>
       ELSE IF Truthy(result.arg)
       THEN /\ stored' = stored
            /\ ipc' = "i60l" /\ lpc' = "check" /\ loginBefore' = Session
            /\ UNCHANGED iresult
       ELSE /\ stored' = Session
            /\ ipc' = "i63"
            /\ UNCHANGED <<lpc, iresult, loginBefore>>
    /\ ResetCall
    /\ UNCHANGED <<restored, module_settings, disable_subscription_check, quality_parse,
                   authRuns, sessVars, now, aggVars, infoVars, raceVars>>
\* lines 93-105, after refresh has returned or raised
RefreshLoginAfter ==
    /\ ipc = "i60r"
    /\ pc = "done"
    /\ IF result.type # "return"
       THEN /\ ipc' = "failed" /\ iresult' = result
            /\ UNCHANGED <<lpc, stored, loginBefore>>
       ELSE IF Truthy(result.arg)
       THEN /\ stored' = NoSession
            /\ ipc' = "i60l" /\ lpc' = "check" /\ loginBefore' = Session
            /\ UNCHANGED iresult
       ELSE /\ stored' = Session
            /\ ipc' = "i63"
            /\ UNCHANGED <<lpc, iresult, loginBefore>>
    /\ ResetCall
    /\ UNCHANGED <<restored, module_settings, disable_subscription_check, quality_parse,
                   authRuns, sessVars, now, aggVars, infoVars, raceVars>>

\* lines 62-63 and 139 with the subscription check disabled: nothing is requested
InitValidSkipped ==
    /\ ipc = "i63"
    /\ pc = "idle"
    /\ disable_subscription_check
    /\ ipc' = "ready"
    /\ UNCHANGED <<lpc, stored, restored, module_settings, disable_subscription_check,
                   quality_parse, loginBefore, authRuns, iresult, sessVars, now, callVars,
                   authVars, aggVars, infoVars, raceVars>>

\* lines 62-75, after get_account has returned or raised
InitAfterValid ==
    /\ ipc = "i63"
    /\ pc = "done"
    /\ LET v == ValidAccount(result) IN
       IF v.type = "return"
       THEN /\ quality_parse' = QualityFor(result.arg.value, quality_parse)
            /\ ipc' = "ready"
            /\ UNCHANGED <<lpc, stored, loginBefore, iresult>>
       ELSE IF MentionsSubscription(v)
       THEN /\ stored' = NoSession
            /\ ipc' = "i72" /\ lpc' = "check" /\ loginBefore' = Session
            /\ UNCHANGED <<quality_parse, iresult>>
       ELSE /\ ipc' = "failed" /\ iresult' = v
            /\ UNCHANGED <<lpc, stored, loginBefore, quality_parse>>
    /\ ResetCall
    /\ UNCHANGED <<restored, module_settings, disable_subscription_check, authRuns,
                   sessVars, now, aggVars, infoVars, raceVars>>

\* the adapter is at a call of _get: get_account of valid_account, or a catalog call
AtGet ==
    \/ ipc \in LoginSites /\ lpc = "valid"
    \/ ipc = "i63" /\ ~disable_subscription_check
    \/ ipc = "ready"

NextAdapter ==
    \/ Tick
    \/ \E session \in StoredSessions, settings \in Settings, skip \in BOOLEAN :
           Construct(session, settings, skip)
    \/ LoginCheck
    \/ \E q \in AuthorizeResponses : ipc \in LoginSites /\ lpc = "auth" /\ AuthAuthorize(q)
    \/ \E q \in AdapterLoginResponses : AuthLogin(q)
    \/ \E q \in AuthorizeResponses : AuthCode(q)
    \/ \E q \in AdapterTokenResponses : AuthToken(q)
    \/ LoginAfterAuth
    \/ LoginAfterValid
    \/ CheckExpiry
    \/ \E q \in AdapterTokenResponses : ipc = "i60r" /\ refresh(q)
    \/ RefreshLoginAfter
    \/ InitValidSkipped
    \/ \E q \in AdapterResponses : AtGet /\ Get1(q)
    \/ \E h \in AdapterHomePages : ReacquireAnonymous(h)
    \/ \E q \in AdapterTokenResponses : ReacquireRefresh(q)
    \/ \E q \in AdapterResponses : Get2(q)
    \/ InitAfterValid
    \/ ipc = "ready" /\ CallEnds

SpecAdapter == Init /\ [][NextAdapter]_vars

(***************************************************************************)
(* Properties of the adapter's construction and login (under SpecAdapter). *)
(***************************************************************************)
\* a credential that is blank: the empty string, or no value at all
Blank(v) == v = None \/ v = EmptyStr

\* C13: login called with a blank username or a blank password raises the
\* missing-credentials error before any request is issued and leaves the session of
\* the API object as it was.
C13_BlankCredentialsShortCircuit ==
    (lpc # "none" /\ (Blank(module_settings.username) \/ Blank(module_settings.password))) =>
        /\ lpc = "check"
        /\ pc = "idle"
        /\ authRequests = 0 /\ gets = 0 /\ refreshPosts = 0 /\ anonFetches = 0
        /\ Session = loginBefore
        /\ ipc = "failed" =>
               /\ iresult.type = "module_error"
               /\ iresult.prefix = "Beatport credentials are missing in settings.json. "

\* login failed on a blank password after a failed refresh had cleared the store, with
\* the tokens still in the session
C13_Witness ==
    /\ ipc = "failed" /\ lpc = "check"
    /\ module_settings.username = JStr(<<"user">>)
    /\ Blank(module_settings.password)
    /\ iresult = MissingCredentialsError
    /\ Truthy(access_token) /\ Truthy(refresh_token)
    /\ stored = NoSession
    /\ Session = loginBefore

\* C19: when the store holds no refresh token at construction, auth has run and
\* returned before any GET (get_account or catalog) is issued, whatever the stored
\* access token and expiry are.
C19_LoginBeforeAnyGet ==
    (ipc # "unbuilt" /\ restored.refresh_token = None /\ gets >= 1) => authRuns >= 1

\* a stored access token with an expiry but no refresh token: the first GET is the
\* get_account of login, after auth
C19_Witness ==
    /\ restored.refresh_token = None
    /\ Truthy(restored.access_token) /\ restored.expires # None
    /\ ipc = "i55" /\ lpc = "valid"
    /\ gets = 1 /\ authRuns = 1
    /\ bearers[1] # restored.access_token

\* C20 as stated: no GET is sent with an access token whose expires timestamp is
\* earlier than the current time, at construction and in every later catalog call.
C20_NoGetWithExpiredToken ==
    [][gets' > gets => ~(expires.t = "time" /\ expires.v < now)]_vars

\* C21 as stated: while the session holds an access token and no refresh token, no
\* refresh request is posted and no request of the credential flow (auth) is issued,
\* in _get's 401 handling and at construction.
C21_NoRefreshTokenNoCredentials ==
    [][(access_token # None /\ refresh_token = None) =>
           /\ ~(refreshPosts' > refreshPosts)
           /\ ~(authRequests' > authRequests)]_vars

(***************************************************************************)
(* Further properties of refresh and of _get (checked under Spec; C29      *)
(* under SpecCalls).                                                       *)
(***************************************************************************)
\* refresh, called on its own, was answered with a status other than 200
RefreshRefusedOnItsOwn == pc = "done" /\ gets = 0 /\ refreshPosts = 1 /\ rr.status # 200

\* C22 as stated: for every answer other than 200, whatever its body, refresh raises
\* nothing and returns a value its callers take as the failure signal, after one post.
C22_FailedRefreshReturnsSignal ==
    RefreshRefusedOnItsOwn =>
        /\ result.type = "return"
        /\ RefreshSignalsFailure(result)

(***************************************************************************)
(* Further properties of pagination (checked under SpecPages).             *)
(***************************************************************************)
\* C23: every page request of an aggregation asks for at most 100 items, and the
\* pages requested within one aggregation are 1, 2, ..., n in this order, none twice
\* and none skipped.
C23_PagesInOrderAtMost100 ==
    \A i \in 1..Len(requested) :
        /\ requested[i][1] = i
        /\ requested[i][2] <= 100

\* the tracks of an artist were collected with three requests, the third page
\* holding the last track
C23_Witness ==
    /\ aggpc = "done"
    /\ agg = "artist"
    /\ srvTotal = 2 * PerPage + 1
    /\ requested = << <<1, PerPage>>, <<2, PerPage>>, <<3, PerPage>> >>
    /\ Len(all_tracks_raw) = srvTotal

\* the number of items on the page the server sent in answer to request k
PageItems(k) ==
    LET results == Get(PageData(srvTotal, k, modes[k]), "results", None) IN
    IF results.t = "list" THEN Len(results.elems) ELSE 0

\* the last two pages were non-empty and each held fewer items than asked for
TwoShortPages ==
    /\ Len(modes) >= 2
    /\ \A k \in {Len(modes) - 1, Len(modes)} : PageItems(k) > 0 /\ PageItems(k) < PerPage

\* C24 as stated: another page is requested only while the accumulated count is below
\* the declared total and the most recent page was non-empty, and the aggregation ends
\* after two consecutive non-empty pages of fewer than 100 items with the total not
\* yet reached.
C24_ContinuesOnlyWhileProgress ==
    /\ aggpc = "loop" =>
           /\ Len(all_tracks_raw) < total_items.v
           /\ PageItems(Len(modes)) > 0
    /\ (aggpc # "idle" /\ TwoShortPages /\ total_items.t = "num"
            /\ Len(all_tracks_raw) < total_items.v) => aggpc = "done"

\* answers that are an empty page, a page without a results list, or a page without
\* the declared total
DeficientModes == {"empty", "noresults", "nullresults", "nocount", "falsy"}

\* C25 as stated: for every collection, when a page came back empty or without a
\* results list, or the declared total was missing, the aggregation does not raise
\* and returns the items accumulated so far.
C25_DeficientPagesDoNotRaise ==
    (aggpc = "done" /\ \E k \in 1..Len(modes) : modes[k] \in DeficientModes) =>
        aggResult = Items(all_tracks_raw)

\* C26: a call of _get whose first response is not 401 issues no other request and
\* leaves access_token, refresh_token and expires as they were when it began,
\* whether it returns or raises.
C26_Non401KeepsSession ==
    (pc = "done" /\ gets >= 1 /\ got[1].status # 401) =>
        /\ Session = before
        /\ gets = 1 /\ refreshPosts = 0 /\ anonFetches = 0

\* a call with a full session ended with the error of a 403
C26_Witness ==
    /\ pc = "done" /\ gets = 1
    /\ got[1].status = 403
    /\ result.type \notin {"return", "none"}
    /\ Truthy(access_token) /\ Truthy(refresh_token) /\ expires # None
    /\ Session = before

\* get_anonymous_token, called on its own, raised
AnonFailedOnItsOwn == pc = "done" /\ gets = 0 /\ anonFetches = 1 /\ result.type # "return"

\* C27 as stated: get_anonymous_token raises BeatportError when the landing page has
\* no data blob or the blob has no object with an access_token member, and on every
\* failure, a landing page other than 200 included, it leaves access_token,
\* refresh_token and expires as they were.
C27_AnonFailureKeepsSession ==
    AnonFailedOnItsOwn =>
        /\ (home.status = 200 /\ (~home.blob \/ (home.doc.shape = "json" /\ TokenObjects = << >>)))
               => result.type = "BeatportError"
        /\ Session = before

(***************************************************************************)
(* Further properties of auth (checked under Spec).                        *)
(***************************************************************************)
\* the status auth expects of its k-th request: 302 of the two authorize requests,
\* 200 of the login and of the token exchange
ExpectedStatus(k) == IF k \in {1, 3} THEN 302 ELSE 200

\* the login answer carries a blank message on both fields (the case of C12)
BothBlank ==
    /\ authRequests = 2
    /\ LoginErrorObject /\ CarriesBlank("username") /\ CarriesBlank("password")

\* C28 as stated, with the missing-credentials report of the login step as the one
\* exception: auth issues authorize, login, authorize, token exchange in this order;
\* the first answer with an unexpected status ends the call with ConnectionError
\* carrying the raw body and no later request; the session is written only after
\* all four answered as expected.
C28_AuthStepsInOrder ==
    authRequests >= 1 =>
        /\ authRequests <= 4
        /\ pc = "auth_login" => (authRequests = 1 /\ ar.status = 302)
        /\ pc = "auth_code" => (authRequests = 2 /\ ar.status = 200)
        /\ pc = "auth_token" => (authRequests = 3 /\ ar.status = 302)
        /\ ar.status # ExpectedStatus(authRequests) =>
               /\ pc = "done"
               /\ \/ result = Raise("ConnectionError", "", ar.body)
                  \/ BothBlank /\ result = MissingCredentials
        /\ Session # before => (authRequests = 4 /\ ar.status = 200)

\* C29: after a call that failed, with the ValueError of the 401 cycle or with any
\* other error, the next call of _get sends its GET with the access token the session
\* then holds and, on a 401, runs the cycle as any call does: one refresh or one
\* landing-page fetch, then one retry whose answer ends the call.
C29_NoStickyFailure ==
    (lastFailure # "none" /\ gets >= 1) =>
        /\ bearers[1] = before.access_token
        /\ gets <= 2
        /\ got[1].status # 401 => (pc = "done" /\ gets = 1 /\ result = Finish(got[1]))
        /\ got[1].status = 401 =>
               /\ pc \in {"reacquire", "retry", "done"}
               /\ pc = "reacquire" => (gets = 1 /\ refreshPosts + anonFetches = 0)
               /\ pc # "reacquire" => refreshPosts + anonFetches = 1
               /\ pc = "retry" => gets = 1
        /\ gets = 2 =>
               /\ got[1].status = 401 /\ pc = "done"
               /\ bearers[2] = access_token
               /\ result = IF got[2].status = 401
                           THEN Raise("ValueError", "Authentication failed after retry: ",
                                      got[2].body)
                           ELSE Finish(got[2])

\* the call before ended with the ValueError of the 401 cycle; this one was answered
\* 401, refreshed the session and returned the answer of its retry
C29_Witness ==
    /\ lastFailure = "Unauthorized"
    /\ pc = "done" /\ gets = 2 /\ refreshPosts = 1
    /\ got[1].status = 401 /\ got[2].status = 200
    /\ result.type = "return"
    /\ bearers[2] # bearers[1]

(***************************************************************************)
(* Properties of refresh_login (checked under SpecAdapter).                *)
(***************************************************************************)
\* refresh_login has its answer from refresh: the failure signal, or nothing after 200
RefreshLoginSignalled ==
    ipc = "i60r" /\ pc = "done" /\ result.type = "return" /\ RefreshSignalsFailure(result)
RefreshLoginSucceeded ==
    ipc = "i60r" /\ pc = "done" /\ rr.status = 200 /\ result = Return(None)

\* C30: when refresh signals failure, refresh_login clears the three stored keys and
\* only then runs login, so the store is clear for as long as that login runs and
\* stays clear when it fails; when refresh succeeds, refresh_login runs no login and
\* stores the refreshed session.
C30_ClearStoreThenLogin ==
    [][/\ RefreshLoginSignalled =>
              /\ stored' = NoSession
              /\ ipc' = "i60l" /\ lpc' = "check"
              /\ authRequests' = 0 /\ authRuns' = authRuns
       /\ ipc' = "i60l" => stored' = NoSession
       /\ (ipc = "i60l" /\ ipc' = "failed") => stored' = NoSession
       /\ RefreshLoginSucceeded =>
              /\ ipc' = "i63" /\ lpc' = "none"
              /\ authRuns' = authRuns
              /\ stored' = [access_token |-> access_token', refresh_token |-> refresh_token',
                            expires |-> expires']
              /\ stored'.access_token = Item(rr.body.value, "access_token")]_vars

\* the refresh was refused, the store is clear, and the login that follows has posted
\* the credentials while the session still holds the old tokens
C30_Witness ==
    /\ ipc = "i60l" /\ lpc = "auth"
    /\ authRequests = 2
    /\ stored = NoSession
    /\ restored.refresh_token # None
    /\ Session = restored

(***************************************************************************)
(* Properties of the retried GET (checked under Spec).                     *)
(***************************************************************************)
\* the access token the re-acquisition of the running call obtained
AcquiredToken ==
    IF refreshPosts = 1 THEN Item(rr.body.value, "access_token")
    ELSE Item(TokenObjects[1], "access_token")

\* the running call of _get was answered 401 and re-acquired a token
Reacquired ==
    /\ gets >= 1 /\ got[1].status = 401
    /\ \/ refreshPosts = 1 /\ RefreshGranted
       \/ AnonTokenServed

\* C35: the retried GET after a successful re-acquisition carries the access token
\* that re-acquisition obtained; the rejected token is sent again only when the
\* server handed out that same token once more.
C35_RetryCarriesNewToken ==
    (Reacquired /\ gets = 2) =>
        /\ bearers[2] = AcquiredToken
        /\ AcquiredToken # bearers[1] => bearers[2] # bearers[1]

\* an anonymous session was answered 401, fetched another token from the landing page
\* and sent it with the retry
C35_Witness ==
    /\ Reacquired /\ gets = 2 /\ anonFetches = 1
    /\ Truthy(bearers[1])
    /\ bearers[2] # bearers[1]
    /\ bearers[2] = access_token

\* the call was answered 401 and its retry was answered with a status that is
\* neither 401 nor a success
RetryRefused ==
    /\ pc = "done" /\ gets = 2
    /\ got[1].status = 401
    /\ got[2].status \notin (SuccessStatuses \cup {401})

\* C36: when the first GET answers 401 and the retried GET answers 403, 404 or
\* another non-success status, the call fails with the classification of the retried
\* answer, not with the ValueError of the 401 cycle, and the session keeps the tokens
\* the cycle acquired.
C36_RetryAnswerIsClassified ==
    RetryRefused =>
        /\ result.type \notin {"return", "none"}
        /\ Kind(result) # "Unauthorized"
        /\ got[2].status = 403 =>
               Kind(result) \in {"RegionLocked", "SubscriptionRequired",
                                 "ContentUnavailable", "GenericApiError"}
        /\ got[2].status = 404 => Kind(result) = "NotFound"
        /\ got[2].status \notin {403, 404} =>
               result = Raise("ConnectionError", "", got[2].body)
        /\ Reacquired =>
               /\ access_token = AcquiredToken
               /\ refreshPosts = 1 => refresh_token = Item(rr.body.value, "refresh_token")
               /\ refreshPosts = 0 => refresh_token = None

\* a refreshed call whose retry was answered 403 with a territory restriction
C36_Witness ==
    /\ RetryRefused /\ Reacquired /\ refreshPosts = 1
    /\ got[2].status = 403
    /\ Kind(result) = "RegionLocked"
    /\ access_token # before.access_token
    /\ refresh_token # before.refresh_token

(***************************************************************************)
(* Properties of the store (checked under SpecAdapter).                    *)
(***************************************************************************)
\* a step of login (lines 107-136) and a step of refresh_login (lines 89-105)
InLogin == ipc \in LoginSites /\ lpc # "none"
InRefreshLogin == ipc = "i60r"

\* the store handed to the constructor is the host's doing, not a write of the adapter
StoreWritten == ipc # "unbuilt" /\ stored' # stored

\* C37 as stated: no catalog call writes the persisted keys, which are written only by
\* login and refresh_login.
C37_OnlyLoginAndRefreshLoginWrite ==
    [][/\ ipc = "ready" => stored' = stored
       /\ StoreWritten => (InLogin \/ InRefreshLogin)]_vars

\* C37: a refresh or an anonymous re-acquisition inside the 401 handling of _get
\* changes the session in memory only: no step of a catalog call writes the persisted
\* keys. They are written by login, by refresh_login, and by the constructor, which
\* clears them when the subscription check of line 63 failed on the subscription.
C37_CatalogCallsKeepStore ==
    [][/\ ipc = "ready" => stored' = stored
       /\ StoreWritten =>
              \/ InLogin
              \/ InRefreshLogin
              \/ ipc = "i63" /\ stored' = NoSession]_vars

\* a catalog call has refreshed the session in its 401 handling and has returned; the
\* store still holds the tokens of before
C37_Witness ==
    /\ ipc = "ready" /\ pc = "done"
    /\ refreshPosts = 1 /\ RefreshGranted
    /\ result.type = "return"
    /\ stored = before
    /\ stored.access_token # access_token
    /\ stored.refresh_token # refresh_token

\* login returns to the constructor or to refresh_login (line 136); refresh_login
\* returns (line 103 after login, or line 105)
LoginReturns == ipc \in LoginSites /\ ipc' = AfterLogin(ipc)
RefreshLoginReturns == ipc \in {"i60r", "i60l"} /\ ipc' = "i63"

\* auth has returned a token answer without error_description (lines 118-120)
AuthSucceeded ==
    /\ InLogin /\ lpc = "auth" /\ pc = "done"
    /\ result.type = "return"
    /\ Get(result.arg.value, "error_description", None) = None

\* valid_account raises inside login (line 134)
SubscriptionCheckRaises == InLogin /\ lpc = "valid" /\ ipc' = "failed"

\* C39: when login or refresh_login returns, the persisted triple equals the session
\* triple. When auth has succeeded the session holds the tokens of its answer; login
\* does not write the store before it returns, so when the subscription check then
\* raises the store is as login found it, while the session keeps the tokens it has:
\* those of auth unless the 401 handling of get_account has replaced them since.
C39_StoreEqualsSessionOnReturn ==
    [][/\ (LoginReturns \/ RefreshLoginReturns) =>
              stored' = [access_token |-> access_token', refresh_token |-> refresh_token',
                         expires |-> expires']
       /\ AuthSucceeded =>
              /\ access_token = Item(result.arg.value, "access_token")
              /\ refresh_token = Item(result.arg.value, "refresh_token")
       /\ (InLogin /\ ~LoginReturns) => stored' = stored
       /\ (InLogin /\ lpc = "valid" /\ pc = "idle") => UNCHANGED sessVars
       /\ SubscriptionCheckRaises =>
              /\ UNCHANGED sessVars
              /\ (refreshPosts = 0 /\ anonFetches = 0) => Session = before]_vars

\* the store held an access token and no refresh token, so the constructor called
\* login; auth succeeded and the account has no subscription: the session holds the
\* tokens of auth, the store what it held at construction
C39_Witness ==
    /\ ipc = "failed" /\ iresult = NoSubscriptionError
    /\ authRuns = 1
    /\ access_token = JStr(<<"T2">>) /\ refresh_token = JStr(<<"T2">>)
    /\ stored = restored
    /\ stored.access_token = JStr(<<"T1">>)
    /\ stored.refresh_token = None

(***************************************************************************)
(* Termination and order of the aggregation (checked under SpecPages).     *)
(***************************************************************************)
\* C32 as stated: a playlist or chart aggregation with declared total T makes at most
\* max(1, T) page requests, whatever the server answers.
C32_AtMostTotalRequests ==
    (agg \in WhileKinds /\ total_items.t = "num") =>
        Len(requested) <= Max(1, total_items.v)

\* the items of the page the server sent in answer to request k, in its order
PageList(k) ==
    LET results == Get(PageData(srvTotal, k, modes[k]), "results", None) IN
    IF results.t = "list" THEN results.elems ELSE << >>

\* the items of pages 1..k, page after page
RECURSIVE PagesUpTo(_)
PagesUpTo(k) == IF k = 0 THEN << >> ELSE PagesUpTo(k - 1) \o PageList(k)

\* the total as the first page declared it
FirstTotal ==
    LET d == PageData(srvTotal, 1, modes[1]) IN
    IF agg \in WhileKinds THEN PlaylistFirst(d).total ELSE ForFirst(agg, d).total

\* C33: as long as the aggregation has not raised, the collection is the
\* concatenation of the items of the pages fetched so far, in page order and in the
\* order of each page, nothing dropped, doubled or moved; the declared total is the
\* one of page 1 whatever later pages declare.
C33_ConcatenationInPageOrder ==
    (aggpc # "idle" /\ aggResult # TypeError) =>
        /\ all_tracks_raw = PagesUpTo(Len(modes))
        /\ total_items = FirstTotal
        /\ aggResult # Running => aggResult = Items(all_tracks_raw)

\* a playlist of 101 declared items: page 1 held 99 of them, page 2 the last one, and
\* page 3 nothing
C33_Witness ==
    /\ aggpc = "done" /\ agg = "playlist"
    /\ srvTotal = PerPage + 1
    /\ Len(modes) = 3 /\ modes[1] = "short"
    /\ Len(all_tracks_raw) = PerPage
    /\ all_tracks_raw[PerPage - 1] = PerPage - 1
    /\ all_tracks_raw[PerPage] = PerPage + 1
    /\ aggResult = Items(all_tracks_raw)

(***************************************************************************)
(* ModuleInterface.get_album_info (lines 571-669) and get_track_info       *)
(* (lines 677-757): the requests they make through _get and what they do   *)
(* with an exception _get raises.  One action per request; the answer of   *)
(* _get to it is Finish of the final response.                             *)
(***************************************************************************)
\* final responses that make _get raise, and the answers that carry data
InfoErrors ==
    { Response(403, ErrorObject), Response(403, EmptyObject),
      Response(403, Json(JDict(<< <<"detail", JStr(Sp(<<"Subscription", "needed">>))>> >>))),
      Response(404, ErrorObject), Response(500, NotJsonText) }
RecordAnswers == InfoErrors \cup {Response(200, CatalogRecord)}
TrackPage(T, k) == Response(200, Json(PageData(T, k, "full")))

\* str(e).lower() for the exception of outcome o
LoweredPrefix(prefix) ==
    CASE prefix = "region locked" -> Sp(<<"region", "locked">>)
      [] prefix = "subscription required" -> Sp(<<"subscription", "required">>)
      [] prefix = "content not available" -> Sp(<<"content", "not", "available">>)
      [] prefix = "API error: " -> <<"api", " ", "error", ":", " ">>
      [] prefix = "API error (HTTP 403): " -> <<"api", " ", "error", " ", "(http", " ", "403):", " ">>
      [] prefix = "not found: " -> <<"not", " ", "found", ":", " ">>
      [] prefix = "not found (HTTP 404)" -> <<"not", " ", "found", " ", "(http", " ", "404)">>
      [] OTHER -> << >>
ArgText(o) == IF o.arg.shape = "text" THEN o.arg.text ELSE Str(o.arg.value)
LoweredMessage(o) == LoweredPrefix(o.prefix) \o Lower(ArgText(o))
Says(o, words) == Contains(Sp(words), LoweredMessage(o))

\* except BeatportError (lines 578, 589, 629, 687); except ConnectionError (line 747)
IsBeatportError(o) == o.type = "BeatportError"
IsConnectionError(o) == o.type = "ConnectionError"

\* what the operations return
NoAlbum == Return(Json(None))
AlbumInfo(ts) == Return(Json(JDict(<< <<"tracks", JList(ts)>> >>)))
TrackInfo(error) ==
    Return(Json(JDict(<< <<"name", JStr(<<"name">>)>>, <<"error", error>> >>)))

\* lines 693-711: the error text of the placeholder track
TrackErrorMessage(o) ==
    LET original == <<o.prefix>> \o ArgText(o) IN
    IF Says(o, <<"not", "found">>) \/ Says(o, <<"no", "track", "matches">>)
    THEN <<"Track not found in API: ">> \o original
    ELSE IF Says(o, <<"region", "locked">>)
    THEN <<"Track is not available in your region. Original error: ">> \o original
    ELSE IF Says(o, <<"subscription", "required">>)
    THEN <<"Track requires a higher subscription level">>
    ELSE IF Says(o, <<"content", "not", "available">>)
    THEN <<"Track is not available for download">>
    ELSE IF Says(o, <<"access", "denied">>) \/ Says(o, <<"api", "error">>)
    THEN <<"API error: ">> \o original
    ELSE original
\* lines 714-731
Placeholder(o) ==
    Return(Json(JDict(<< <<"name", JStr(Sp(<<"Unknown", "Track">>))>>,
                         <<"error", JStr(TrackErrorMessage(o))>> >>)))

\* lines 576-625: get_release, inside try ... except BeatportError
AlbumRelease(q) ==
    /\ infopc = "idle"
    /\ info' = "album"
    /\ LET o == Finish(q) IN
       /\ fetched' = <<Kind(o)>>
       /\ IF o.type = "return"
          THEN album_data' = "release" /\ infopc' = "tracks" /\ infoResult' = NoOutcome
          ELSE IF ~IsBeatportError(o)
          THEN album_data' = "none" /\ infopc' = "done" /\ infoResult' = o
          ELSE IF Says(o, <<"region", "locked">>)
          THEN album_data' = "none" /\ infopc' = "workaround" /\ infoResult' = NoOutcome
          ELSE album_data' = "none" /\ infopc' = "done" /\ infoResult' = NoAlbum
    /\ UNCHANGED <<tracks, total_tracks, track_page, raceVars, ifaceVars, aggVars, sessVars,
                   now, callVars, authVars>>

\* lines 588-616: the tracks are asked for although get_release said region locked;
\* release tells whether the first track carries its release
AlbumWorkaround(q, release) ==
    /\ infopc = "workaround"
    /\ LET o == Finish(q) IN
       /\ fetched' = Append(fetched, Kind(o))
       /\ IF o.type = "return"
          THEN LET found == Get(o.arg.value, "results", JList(<< >>)).elems IN
               IF found # << >> /\ release
               THEN album_data' = "track" /\ infopc' = "tracks" /\ infoResult' = NoOutcome
               ELSE album_data' = "none" /\ infopc' = "done" /\ infoResult' = NoAlbum
          ELSE IF IsBeatportError(o)
          THEN album_data' = "none" /\ infopc' = "done" /\ infoResult' = NoAlbum
          ELSE album_data' = "none" /\ infopc' = "done" /\ infoResult' = o
    /\ UNCHANGED <<info, tracks, total_tracks, track_page, raceVars, ifaceVars, aggVars,
                   sessVars, now, callVars, authVars>>

\* lines 627-651: the first page of tracks, inside try ... except BeatportError, and
\* the page count
AlbumTracks(q) ==
    /\ infopc = "tracks"
    /\ track_page' = 1
    /\ LET o == Finish(q) IN
       /\ fetched' = Append(fetched, Kind(o))
       /\ IF o.type = "return"
          THEN LET st == ForFirst("album", o.arg.value) IN
               /\ tracks' = st.acc
               /\ total_tracks' = st.total
               /\ IF st.out = Running
                  THEN infopc' = "pages" /\ infoResult' = NoOutcome
                  ELSE /\ infopc' = "done"
                       /\ infoResult' = IF st.out = TypeError THEN TypeError
                                        ELSE AlbumInfo(st.acc)
          ELSE /\ infopc' = "done"
               /\ infoResult' = IF IsBeatportError(o) THEN AlbumInfo(<< >>) ELSE o
               /\ UNCHANGED <<tracks, total_tracks>>
    /\ UNCHANGED <<info, album_data, raceVars, ifaceVars, aggVars, sessVars, now, callVars,
                   authVars>>

\* lines 652-654: pages 2, 3, ... of the tracks, outside any try
AlbumNextPage(q) ==
    /\ infopc = "pages"
    /\ track_page' = track_page + 1
    /\ LET o == Finish(q) IN
       /\ fetched' = Append(fetched, Kind(o))
       /\ IF o.type = "return"
          THEN LET st == ForNext("album", tracks, total_tracks, NumPages(total_tracks.v),
                                 track_page + 1, o.arg.value)
               IN /\ tracks' = st.acc
                  /\ IF st.out = Running
                     THEN infopc' = "pages" /\ infoResult' = NoOutcome
                     ELSE /\ infopc' = "done"
                          /\ infoResult' = IF st.out = TypeError THEN TypeError
                                           ELSE AlbumInfo(st.acc)
          ELSE /\ infopc' = "done"
               /\ infoResult' = o
               /\ UNCHANGED tracks
    /\ UNCHANGED <<info, album_data, total_tracks, raceVars, ifaceVars, aggVars, sessVars,
                   now, callVars, authVars>>

\* lines 682-740: get_track, inside try ... except BeatportError; release tells whether
\* the track carries its release with name and id, so that no release is asked for
TrackFetch(q, release) ==
    /\ infopc = "idle"
    /\ info' = "track"
    /\ LET o == Finish(q) IN
       /\ fetched' = <<Kind(o)>>
       /\ IF o.type = "return"
          THEN IF release
               THEN album_data' = "track" /\ infopc' = "done" /\ infoResult' = TrackInfo(None)
               ELSE album_data' = "none" /\ infopc' = "release" /\ infoResult' = NoOutcome
          ELSE /\ album_data' = "none"
               /\ infopc' = "done"
               /\ infoResult' = IF IsBeatportError(o) THEN Placeholder(o) ELSE o
    /\ UNCHANGED <<tracks, total_tracks, track_page, raceVars, ifaceVars, aggVars, sessVars,
                   now, callVars, authVars>>

\* lines 742-757: get_release for the track, inside try ... except ConnectionError
TrackRelease(q) ==
    /\ infopc = "release"
    /\ LET o == Finish(q) IN
       /\ fetched' = Append(fetched, Kind(o))
       /\ infopc' = "done"
       /\ IF o.type = "return"
          THEN album_data' = "release" /\ infoResult' = TrackInfo(None)
          ELSE IF IsConnectionError(o)
          THEN album_data' = "none" /\ infoResult' = TrackInfo(JStr(<<"Album ">> \o ArgText(o)))
          ELSE album_data' = "none" /\ infoResult' = o
    /\ UNCHANGED <<info, tracks, total_tracks, track_page, raceVars, ifaceVars, aggVars,
                   sessVars, now, callVars, authVars>>

\* the operation has returned or raised; the host goes on
InfoEnds ==
    /\ infopc = "done"
    /\ info' = "none"
    /\ infopc' = "idle"
    /\ album_data' = "none"
    /\ tracks' = << >>
    /\ total_tracks' = None
    /\ track_page' = 0
    /\ fetched' = << >>
    /\ infoResult' = NoOutcome
    /\ UNCHANGED <<raceVars, ifaceVars, aggVars, sessVars, now, callVars, authVars>>

NextInfo ==
    \/ \E q \in RecordAnswers : AlbumRelease(q)
    \/ \E q \in InfoErrors \cup {TrackPage(T, 1) : T \in Totals}, release \in BOOLEAN :
           AlbumWorkaround(q, release)
    \/ \E q \in InfoErrors \cup {TrackPage(T, 1) : T \in Totals} : AlbumTracks(q)
    \/ /\ infopc = "pages"
       /\ \E q \in InfoErrors \cup {TrackPage(total_tracks.v, track_page + 1)} :
              AlbumNextPage(q)
    \/ \E q \in RecordAnswers, release \in BOOLEAN : TrackFetch(q, release)
    \/ \E q \in RecordAnswers : TrackRelease(q)
    \/ InfoEnds

SpecInfo == Init /\ [][NextInfo]_vars

(***************************************************************************)
(* Properties of get_album_info and get_track_info (under SpecInfo).       *)
(***************************************************************************)
\* the classified errors of the dispatcher
DomainKinds ==
    {"RegionLocked", "SubscriptionRequired", "ContentUnavailable", "NotFound",
     "GenericApiError"}

\* the request the operation ended on was answered with a classified error
EndedOnDomainError ==
    infopc = "done" /\ fetched # << >> /\ fetched[Len(fetched)] \in DomainKinds

\* C31 as stated: when a request of get_album_info or get_track_info, whichever it is,
\* ended with a classified error, the operation does not raise: get_album_info returns
\* no album or an album without tracks, get_track_info the placeholder track with the
\* error text.
C31_DomainErrorsAreAbsorbed ==
    EndedOnDomainError =>
        /\ infoResult.type = "return"
        /\ info = "album" => infoResult \in {NoAlbum, AlbumInfo(<< >>)}
        /\ info = "track" =>
               /\ Has(infoResult.arg.value, "error")
               /\ Truthy(Item(infoResult.arg.value, "error"))

(***************************************************************************)
(* Two calls of BeatportApi._get on one instance (lines 181-197), each     *)
(* advancing from one request to the next, and the refresh of lines        *)
(* 150-162 split where it blocks: the post is sent with the refresh token  *)
(* read from the session (line 153), and the session is written when the   *)
(* answer has arrived (lines 160-162).                                     *)
(***************************************************************************)
Callers == {1, 2}
Other(c) == 3 - c

\* the call has issued its first GET and has not returned yet
InFlight(c) == callpc[c] \in {"reacquire", "posting", "retry"}

\* what the server answers to a GET, and the landing pages it serves
CallerResponses == {Response(200, CatalogRecord), Response(401, NotJsonText)}

\* refresh tokens, and a server that issues a new one with every grant: the token of
\* a grant was never in a session before
RefreshTokens == {JStr(<<TokNames[n]>>) : n \in 1..(MaxTok + 1)}
Known == {posted[i].token : i \in 1..Len(posted)} \cup {posted[i].new : i \in 1..Len(posted)}
             \cup {refresh_token}
RotatingAnswers ==
    {Response(200, Grant(t, t, JNum(1))) : t \in RefreshTokens \ Known}
    \cup {Response(400, b) : b \in RefreshErrorBodies}

\* the post of caller c that has not been answered yet
Pending(c) == CHOOSE i \in 1..Len(posted) : posted[i].by = c /\ posted[i].state = "pending"

\* the session the host restores before the first call (lines 164-167)
CallerRestore(rt) ==
    /\ posted = << >>
    /\ \A c \in Callers : callpc[c] = "idle"
    /\ set_session(JStr(<<"T1">>), rt, Time(0))

\* line 181: the first GET of caller c
CallerGet1(c, q) ==
    /\ callpc[c] = "idle"
    /\ callpc' = [callpc EXCEPT ![c] = IF q.status = 401 THEN "reacquire" ELSE "done"]
    /\ overlapped' = (overlapped \/ InFlight(Other(c)))
    /\ UNCHANGED <<posted, infoVars, ifaceVars, aggVars, sessVars, now, callVars, authVars>>

\* lines 185-187: no refresh token, so the anonymous token is fetched
CallerAnonymous(c, h) ==
    /\ callpc[c] = "reacquire"
    /\ ~Truthy(refresh_token)
    /\ LET e == AnonEffect(h) IN
       /\ access_token' = e.access_token
       /\ refresh_token' = e.refresh_token
       /\ expires' = e.expires
       /\ callpc' = [callpc EXCEPT ![c] = IF e.out.type = "return" THEN "retry" ELSE "done"]
    /\ UNCHANGED <<posted, overlapped, infoVars, ifaceVars, aggVars, now, callVars, authVars>>

\* lines 188-189 and 151-157: the refresh token of the session is posted
CallerPost(c) ==
    /\ callpc[c] = "reacquire"
    /\ Truthy(refresh_token)
    /\ Len(posted) < MaxPosts
    /\ posted' = Append(posted, [by |-> c, token |-> refresh_token, state |-> "pending",
                                 new |-> None])
    /\ callpc' = [callpc EXCEPT ![c] = "posting"]
    /\ UNCHANGED <<overlapped, infoVars, ifaceVars, aggVars, sessVars, now, callVars, authVars>>

CallerAnswered_KeepsOldToken(c, q) ==
    /\ callpc[c] = "posting"
    /\ LET e == RefreshEffect(q)
           i == Pending(c)
       IN /\ access_token' = e.access_token
          /\ refresh_token' = refresh_token
          /\ expires' = e.expires
          /\ posted' = [posted EXCEPT ![i] =
                            IF q.status = 200
                            THEN [@ EXCEPT !.state = "granted",
                                           !.new = Item(q.body.value, "refresh_token")]
                            ELSE [@ EXCEPT !.state = "refused"]]
          /\ callpc' = [callpc EXCEPT ![c] =
                            IF e.out.type # "return" \/ RefreshSignalsFailure(e.out)
                            THEN "done" ELSE "retry"]
    /\ UNCHANGED <<overlapped, infoVars, ifaceVars, aggVars, now, callVars, authVars>>
CallerAnswered_ClearsOnFailure(c, q) ==
    /\ callpc[c] = "posting"
    /\ LET e == RefreshEffect(q)
           i == Pending(c)
       IN /\ access_token' = e.access_token
          /\ refresh_token' = IF q.status = 200 THEN e.refresh_token ELSE None
          /\ expires' = e.expires
          /\ posted' = [posted EXCEPT ![i] =
                            IF q.status = 200
                            THEN [@ EXCEPT !.state = "granted",
                                           !.new = Item(q.body.value, "refresh_token")]
                            ELSE [@ EXCEPT !.state = "refused"]]
          /\ callpc' = [callpc EXCEPT ![c] =
                            IF e.out.type # "return" \/ RefreshSignalsFailure(e.out)
                            THEN "done" ELSE "retry"]
    /\ UNCHANGED <<overlapped, infoVars, ifaceVars, aggVars, now, callVars, authVars>>
\* lines 158-162 and 189-191: the answer to the post of caller c has arrived
CallerAnswered(c, q) ==
    /\ callpc[c] = "posting"
    /\ LET e == RefreshEffect(q)
           i == Pending(c)
       IN /\ access_token' = e.access_token
          /\ refresh_token' = e.refresh_token
          /\ expires' = e.expires
          /\ posted' = [posted EXCEPT ![i] =
                            IF q.status = 200
                            THEN [@ EXCEPT !.state = "granted",
                                           !.new = Item(q.body.value, "refresh_token")]
                            ELSE [@ EXCEPT !.state = "refused"]]
          /\ callpc' = [callpc EXCEPT ![c] =
                            IF e.out.type # "return" \/ RefreshSignalsFailure(e.out)
                            THEN "done" ELSE "retry"]
    /\ UNCHANGED <<overlapped, infoVars, ifaceVars, aggVars, now, callVars, authVars>>

\* lines 194-197: the retried GET of caller c
CallerGet2(c, q) ==
    /\ callpc[c] = "retry"
    /\ callpc' = [callpc EXCEPT ![c] = "done"]
    /\ UNCHANGED <<posted, overlapped, infoVars, ifaceVars, aggVars, sessVars, now, callVars,
                   authVars>>

\* the call of caller c has returned or raised
CallerEnds(c) ==
    /\ callpc[c] = "done"
    /\ callpc' = [callpc EXCEPT ![c] = "idle"]
    /\ UNCHANGED <<posted, overlapped, infoVars, ifaceVars, aggVars, sessVars, now, callVars,
                   authVars>>

NextTwoCalls ==
    \/ \E rt \in {None, JStr(<<"T1">>)} : CallerRestore(rt)
    \/ \E c \in Callers, q \in CallerResponses : CallerGet1(c, q)
    \/ \E c \in Callers, h \in AdapterHomePages : CallerAnonymous(c, h)
    \/ \E c \in Callers : CallerPost(c)
    \/ \E c \in Callers, q \in RotatingAnswers : CallerAnswered(c, q)
    \/ \E c \in Callers, q \in CallerResponses : CallerGet2(c, q)
    \/ \E c \in Callers : CallerEnds(c)

SpecTwoCalls == Init /\ [][NextTwoCalls]_vars

(***************************************************************************)
(* Properties of refresh under two callers (checked under SpecTwoCalls).   *)
(***************************************************************************)
\* post j sent the refresh token that post i, granted by the server, had sent before
PostedAgain(i, j) ==
    /\ i < j
    /\ posted[i].state = "granted"
    /\ posted[j].token = posted[i].token

C38_GrantedTokenRetiredRefusedTokenKept ==
    ~overlapped =>
        \A i \in 1..Len(posted) :
            /\ posted[i].state = "granted" =>
                   /\ refresh_token # posted[i].token
                   /\ \A j \in (i + 1)..Len(posted) : posted[j].token # posted[i].token
            /\ posted[i].state = "refused" =>
                   IF i < Len(posted)
                   THEN posted[i + 1].token = posted[i].token
                   ELSE refresh_token = posted[i].token

\* three calls one after the other: T1 was exchanged for a new token, whose first
\* refresh was refused and whose second refresh was granted
C38_Witness ==
    /\ ~overlapped
    /\ Len(posted) = 3
    /\ posted[1].token = JStr(<<"T1">>) /\ posted[1].state = "granted"
    /\ posted[2].token = posted[1].new /\ posted[2].state = "refused"
    /\ posted[3].token = posted[2].token /\ posted[3].state = "granted"
    /\ refresh_token = posted[3].new
    /\ \A c \in Callers : callpc[c] = "idle"
====
